---- MODULE Spec2Model ----
(***************************************************************************)
(* Power Switch Pro MCP server: the device accessor (get_device), the      *)
(* stdio call handler (server.py call_tool) and the HTTP tool callables     *)
(* (http_server.py), modelled as a state machine over the module global    *)
(* `_device`, the process environment and the external device, which is    *)
(* observed the way the tests observe it: as a recording mock.             *)
(*                                                                         *)
(* Python values:  Optional[T] is a sequence of length 0 (None) or 1;      *)
(* a str built by an f-string is the sequence of its pieces; a mapping is   *)
(* a record; keyword arguments are a record whose DOMAIN is the set of     *)
(* supplied names.                                                         *)
(***************************************************************************)
EXTENDS Integers, Sequences, FiniteSets, TLC

VARIABLES
    transport,   \* which program this process runs: "stdio" | "http" | "script"
    env,         \* os.environ: a function from the set variable names to str
    _device,     \* the module global `_device`: None or Some(handle)
    ctorCalls,   \* number of PowerSwitchPro(...) constructor invocations
    power,       \* the external device: power state of each outlet
    autoping,    \* the external device: its watchdog (AutoPing) entries
    locked,      \* the external device: the outlets flagged locked
    serving,     \* the transport has begun serving (main / mcp.run reached)
    last,        \* observation of the most recent invocation (a mock's record)
    pc,          \* position of each concurrent get_device call / of the setup script
    local        \* locals of each concurrent get_device call / of the setup script

vars == <<transport, env, _device, ctorCalls, power, autoping, locked, serving, last, pc, local>>

----------------------------------------------------------------------------
(* Bounds of the model *)

MaxOutlet == 2          \* outlets are indexed 0..MaxOutlet
MaxLen == 3             \* longest outlet_ids list of a bulk request
MaxEntries == 2         \* watchdog entries a client adds to the device's table
NumRequests == 2        \* concurrent requests racing on first use

Outlets == 0..MaxOutlet
Requests == 1..NumRequests

----------------------------------------------------------------------------
(* Python's Optional *)

None == <<>>
Some(x) == <<x>>

\* Python truthiness of an Optional[str]: None and "" are falsy
Truthy(o) == o # None /\ o[1] # ""

----------------------------------------------------------------------------
(* The process environment *)

EnvNames == {"POWER_SWITCH_HOST", "POWER_SWITCH_USERNAME",
             "POWER_SWITCH_PASSWORD", "POWER_SWITCH_USE_HTTPS"}

EnvValues(k) ==
    CASE k = "POWER_SWITCH_HOST" -> {"", "192.168.0.100", "10.0.0.7"}
      [] k = "POWER_SWITCH_USERNAME" -> {"operator"}
      [] k = "POWER_SWITCH_PASSWORD" -> {"", "test-password"}
      [] k = "POWER_SWITCH_USE_HTTPS" -> {"True", "false", "yes"}

\* os.getenv(k): None when the variable is not set
getenv(e, k) == IF k \in DOMAIN e THEN Some(e[k]) ELSE None

\* os.getenv(k, default)
getenv_default(e, k, default) == IF k \in DOMAIN e THEN e[k] ELSE default

\* str.lower() on the values the model draws
lower(s) ==
    CASE s = "True" -> "true"
      [] s = "TRUE" -> "true"
      [] s = "Y" -> "y"
      [] s = "N" -> "n"
      [] OTHER -> s

\* str.strip() on the answers the model draws
strip(s) ==
    CASE s = " 30 " -> "30"
      [] s = " " -> ""
      [] OTHER -> s

\* int(str): Some(n) for the decimal strings the model draws, None where
\* int() raises ValueError
int(s) ==
    CASE s = "0" -> Some(0)
      [] s = "1" -> Some(1)
      [] s = "5" -> Some(5)
      [] s = "30" -> Some(30)
      [] s = "8000" -> Some(8000)
      [] s = "9090" -> Some(9090)
      [] OTHER -> None

----------------------------------------------------------------------------
(* Exceptions *)

Exc(type, msg) == [type |-> type, msg |-> msg]

ConfigError ==
    Exc("ValueError",
        "POWER_SWITCH_HOST and POWER_SWITCH_PASSWORD environment variables must be set")

----------------------------------------------------------------------------
(* The run state threaded through one invocation:                          *)
(*   dev    the module global _device                                      *)
(*   ctor   the constructor's call count                                   *)
(*   power  the device's outlet states                                     *)
(*   autoping  the device's watchdog entries                               *)
(*   calls  the device calls this invocation has issued, in order          *)
(*   exc    the exception in flight, if any                                *)
(*   fault  the device's scripted behaviour                                *)
(*   failed the position in `calls` of the device call that raised (0: none) *)

\* The device's behaviour during one invocation, as a test scripts its mock:
\*   at, kind   the at-th device call raises an exception of type kind (0: none)
\*   ok         what update/delete/enable/disable_entry return
\*   entries    what list_entries returns
Script(at, kind, ok, entries) == [at |-> at, kind |-> kind, ok |-> ok, entries |-> entries]

NoFault == Script(0, "none", TRUE, <<>>)

Run(fault) ==
    [dev |-> _device, ctor |-> ctorCalls, power |-> power, autoping |-> autoping,
     calls |-> <<>>, exc |-> None, fault |-> fault, failed |-> 0]

Raise(s, e) == [s EXCEPT !.exc = Some(e)]

\* PowerSwitchPro(host, username, password, use_https=use_https)
PowerSwitchPro(n, host, username, password, use_https) ==
    [inst |-> n, host |-> host, username |-> username,
     password |-> password, use_https |-> use_https]

----------------------------------------------------------------------------
(* get_device, http_server.py *)

\* mutant: the handle is constructed on every call and never reused
get_device_uncached(s, e) ==
    LET host == getenv(e, "POWER_SWITCH_HOST")
        username == getenv_default(e, "POWER_SWITCH_USERNAME", "admin")
        password == getenv(e, "POWER_SWITCH_PASSWORD")
        use_https == lower(getenv_default(e, "POWER_SWITCH_USE_HTTPS", "false")) = "true"
    IN  IF ~Truthy(host) \/ ~Truthy(password)
        THEN Raise(s, ConfigError)
        ELSE [s EXCEPT !.dev = Some(PowerSwitchPro(s.ctor + 1, host[1], username,
                                                   password[1], use_https)),
                       !.ctor = @ + 1]

\* mutant: the constructor is invoked before the credentials are checked
get_device_eager(s, e) ==
    LET host == getenv(e, "POWER_SWITCH_HOST")
        username == getenv_default(e, "POWER_SWITCH_USERNAME", "admin")
        password == getenv(e, "POWER_SWITCH_PASSWORD")
        use_https == lower(getenv_default(e, "POWER_SWITCH_USE_HTTPS", "false")) = "true"
    IN  IF s.dev = None
        THEN IF ~Truthy(host) \/ ~Truthy(password)
             THEN Raise([s EXCEPT !.ctor = @ + 1], ConfigError)
             ELSE [s EXCEPT !.dev = Some(PowerSwitchPro(s.ctor + 1, host[1], username,
                                                        password[1], use_https)),
                            !.ctor = @ + 1]
        ELSE s

\* mutant: the environment is validated again on every call
get_device_revalidate(s, e) ==
    LET host == getenv(e, "POWER_SWITCH_HOST")
        username == getenv_default(e, "POWER_SWITCH_USERNAME", "admin")
        password == getenv(e, "POWER_SWITCH_PASSWORD")
        use_https == lower(getenv_default(e, "POWER_SWITCH_USE_HTTPS", "false")) = "true"
    IN  IF ~Truthy(host) \/ ~Truthy(password)
        THEN Raise(s, ConfigError)
        ELSE IF s.dev = None
             THEN [s EXCEPT !.dev = Some(PowerSwitchPro(s.ctor + 1, host[1], username,
                                                        password[1], use_https)),
                            !.ctor = @ + 1]
             ELSE s

\* mutant: a failure is remembered in the global and met again by later calls
get_device_failure_cached(s, e) ==
    IF s.dev # None /\ "failed" \in DOMAIN s.dev[1] THEN Raise(s, ConfigError)
    ELSE IF s.dev = None
    THEN LET host == getenv(e, "POWER_SWITCH_HOST")
             username == getenv_default(e, "POWER_SWITCH_USERNAME", "admin")
             password == getenv(e, "POWER_SWITCH_PASSWORD")
             use_https ==
                 lower(getenv_default(e, "POWER_SWITCH_USE_HTTPS", "false")) = "true"
         IN  IF ~Truthy(host) \/ ~Truthy(password)
             THEN Raise([s EXCEPT !.dev = Some([failed |-> TRUE])], ConfigError)
             ELSE [s EXCEPT !.dev = Some(PowerSwitchPro(s.ctor + 1, host[1], username,
                                                        password[1], use_https)),
                            !.ctor = @ + 1]
    ELSE s

\* mutant: the flag is compared as it is written
get_device_exact_flag(s, e) ==
    IF s.dev = None
    THEN LET host == getenv(e, "POWER_SWITCH_HOST")
             username == getenv_default(e, "POWER_SWITCH_USERNAME", "admin")
             password == getenv(e, "POWER_SWITCH_PASSWORD")
             use_https == getenv_default(e, "POWER_SWITCH_USE_HTTPS", "false") = "true"
         IN  IF ~Truthy(host) \/ ~Truthy(password)
             THEN Raise(s, ConfigError)
             ELSE [s EXCEPT !.dev = Some(PowerSwitchPro(s.ctor + 1, host[1], username,
                                                        password[1], use_https)),
                            !.ctor = @ + 1]
    ELSE s

\* The returned handle is s'.dev; a raise leaves it in s'.exc.
get_device(s, e) ==
    IF s.dev = None
    THEN LET host == getenv(e, "POWER_SWITCH_HOST")
             username == getenv_default(e, "POWER_SWITCH_USERNAME", "admin")
             password == getenv(e, "POWER_SWITCH_PASSWORD")
             use_https ==
                 lower(getenv_default(e, "POWER_SWITCH_USE_HTTPS", "false")) = "true"
         IN  IF ~Truthy(host) \/ ~Truthy(password)
             THEN Raise(s, ConfigError)
             ELSE [s EXCEPT !.dev = Some(PowerSwitchPro(s.ctor + 1, host[1], username,
                                                        password[1], use_https)),
                            !.ctor = @ + 1]
    ELSE s

(* get_device, server.py: the same function, defined again in that module *)
server_get_device(s, e) ==
    IF s.dev = None
    THEN LET host == getenv(e, "POWER_SWITCH_HOST")
             username == getenv_default(e, "POWER_SWITCH_USERNAME", "admin")
             password == getenv(e, "POWER_SWITCH_PASSWORD")
             use_https ==
                 lower(getenv_default(e, "POWER_SWITCH_USE_HTTPS", "false")) = "true"
         IN  IF ~Truthy(host) \/ ~Truthy(password)
             THEN Raise(s, ConfigError)
             ELSE [s EXCEPT !.dev = Some(PowerSwitchPro(s.ctor + 1, host[1], username,
                                                        password[1], use_https)),
                            !.ctor = @ + 1]
    ELSE s

----------------------------------------------------------------------------
(* The external device, as far as the servers use it *)

Actions == {"on", "off", "cycle"}

\* device.outlets[i].locked: the flag the device holds for the outlet
DeviceLocked(i) == i \in locked

\* device.outlets[i].name, device.info and meter readings: the values the
\* test fixture's mock returns
DeviceName(i) == "Test Outlet"

\* What a completed call does to the outlets: on, off, cycle ("turn off,
\* wait, then turn back on") act on one outlet, bulk_operation(locked=False)
\* on every outlet not flagged locked; every other call reads.
Effect(c, pw) ==
    CASE c.m = "on" -> [pw EXCEPT ![c.outlet] = TRUE]
      [] c.m = "off" -> [pw EXCEPT ![c.outlet] = FALSE]
      [] c.m = "cycle" -> [pw EXCEPT ![c.outlet] = TRUE]
      [] c.m = "bulk_operation" ->
            [o \in Outlets |->
                IF DeviceLocked(o) \/ c.action \notin Actions THEN pw[o]
                ELSE c.action # "off"]
      [] OTHER -> pw

\* The watchdog entries. The device is either the test fixture's mock, which
\* keeps nothing and answers from its script (kept = FALSE), or a device
\* that keeps a table of entries, numbered from 0 in the order they were
\* added (kept = TRUE).
Scripted == [kept |-> FALSE, table |-> <<>>]
Kept(table) == [kept |-> TRUE, table |-> table]

\* an entry id the device knows
KnownEntry(ap, id) == id \in 0..(Len(ap.table) - 1)

\* update_entry(entry_id, host=, outlet=, enabled=, interval=, retries=):
\* a field passed as None is left as it is ("optional")
Updated(entry, kw) ==
    [host |-> IF kw.host = None THEN entry.host ELSE kw.host[1],
     outlet |-> IF kw.outlet = None THEN entry.outlet ELSE kw.outlet[1],
     enabled |-> IF kw.enabled = None THEN entry.enabled ELSE kw.enabled[1],
     interval |-> IF kw.interval = None THEN entry.interval ELSE kw.interval[1],
     retries |-> IF kw.retries = None THEN entry.retries ELSE kw.retries[1]]

\* What a completed call does to the watchdog entries
TableEffect(c, ap) ==
    IF ~ap.kept THEN ap
    ELSE CASE c.m = "add_entry" -> Kept(Append(ap.table, c.kwargs))
           [] c.m = "update_entry" /\ KnownEntry(ap, c.kwargs.entry_id) ->
                 Kept([ap.table EXCEPT ![c.kwargs.entry_id + 1] = Updated(@, c.kwargs)])
           [] c.m = "delete_entry" /\ KnownEntry(ap, c.entry_id) ->
                 Kept([k \in 1..(Len(ap.table) - 1) |->
                          IF k <= c.entry_id THEN ap.table[k] ELSE ap.table[k + 1]])
           [] c.m = "enable_entry" /\ KnownEntry(ap, c.entry_id) ->
                 Kept([ap.table EXCEPT ![c.entry_id + 1].enabled = TRUE])
           [] c.m = "disable_entry" /\ KnownEntry(ap, c.entry_id) ->
                 Kept([ap.table EXCEPT ![c.entry_id + 1].enabled = FALSE])
           [] OTHER -> ap

\* get_entry of an id the device does not know fails
Rejected(c, ap) == ap.kept /\ c.m = "get_entry" /\ ~KnownEntry(ap, c.entry_id)

\* One call on the handle. It is recorded whether it returns or raises; a
\* call that raises has no effect, and nothing runs while an exception is
\* in flight.
DeviceCall(s, c) ==
    IF s.exc # None THEN s
    ELSE IF s.fault.at = Len(s.calls) + 1
         THEN [s EXCEPT !.calls = Append(@, c), !.failed = Len(s.calls) + 1,
                        !.exc = Some(Exc(s.fault.kind, "device failure"))]
         ELSE IF Rejected(c, s.autoping)
         THEN [s EXCEPT !.calls = Append(@, c), !.failed = Len(s.calls) + 1,
                        !.exc = Some(Exc("PowerSwitchError", "device failure"))]
         ELSE [s EXCEPT !.calls = Append(@, c), !.power = Effect(c, @),
                        !.autoping = TableEffect(c, @)]

\* what update/delete/enable/disable_entry return: whether the device did it
Succeeds(s, id) == IF s.autoping.kept THEN KnownEntry(s.autoping, id) ELSE s.fault.ok

\* what list_entries returns
ListedEntries(s) == IF s.autoping.kept THEN s.autoping.table ELSE s.fault.entries

----------------------------------------------------------------------------
(* Results *)

Text(t) == [text |-> t]               \* a str / a TextContent(type="text")
Mapping(m) == [mapping |-> m]         \* a dict returned by an HTTP tool

Returned(v, s) == [out |-> "return", result |-> v, s |-> s]
Raised(e, s) == [out |-> "raise", result |-> [raised |-> e], s |-> s]

OnOff(b) == IF b THEN "ON" ELSE "OFF"

\* str(list of int): "[1, 3, 5]"
RECURSIVE ListItems(_)
ListItems(l) ==
    IF l = <<>> THEN <<>>
    ELSE IF Len(l) = 1 THEN <<ToString(l[1])>>
    ELSE <<ToString(l[1]), ", ">> \o ListItems(Tail(l))

ListRepr(l) == <<"[">> \o ListItems(l) \o <<"]">>

\* [i+1 for i in outlet_ids]
OneBased(l) == [k \in 1..Len(l) |-> l[k] + 1]

\* Calling a function without one of its required parameters raises
\* TypeError while the arguments are bound, before the body is entered.
MissingArgument(op) == Exc("TypeError", "missing a required argument")

Bound(a, required) == required \subseteq DOMAIN a

----------------------------------------------------------------------------
(* Values the device returns (the test fixture's, and watchdog entries in   *)
(* the shapes the two list formatters read)                                *)

Voltage == "120.5"
Current == "2.5"
Power == "300.0"
Energy == "1.5"

DeviceInfo == [serial |-> "TEST123456", firmware |-> "1.7.0", model |-> "LPC952X"]

\* `numeric` tells whether the entry's outlet value is a number
RawEntry ==
    [addresses |-> <<"10.0.0.9">>, outlets |-> <<1>>, enabled |-> TRUE, numeric |-> TRUE,
     status |-> [hosts |-> <<[state |-> TRUE, success_count |-> 5, failure_count |-> 1]>>]]

FlatEntry ==
    [host |-> "10.0.0.9", outlet |-> 1, enabled |-> FALSE, interval |-> 60,
     retries |-> 3, numeric |-> TRUE]

OddEntry == [addresses |-> <<>>, outlets |-> <<0>>, outlet |-> 0, numeric |-> FALSE]

EntryLists == {<<>>, <<RawEntry>>, <<FlatEntry, RawEntry>>, <<OddEntry>>}

PyBool(b) == IF b THEN "True" ELSE "False"
JsonBool(b) == IF b THEN "true" ELSE "false"

\* str(d) of the mapping add_entry returns
PyReprEntry(r) ==
    <<"{'host': '", r.host, "', 'outlet': ", ToString(r.outlet),
      ", 'enabled': ", PyBool(r.enabled), ", 'interval': ", ToString(r.interval),
      ", 'retries': ", ToString(r.retries), "}">>

\* What add_entry returns: the entry as created
Created(kw) ==
    [host |-> kw.host, outlet |-> kw.outlet, enabled |-> kw.enabled,
     interval |-> kw.interval, retries |-> kw.retries]

\* What get_entry returns: the entry the device keeps, or the mock's
GotEntry(s, id) == IF s.autoping.kept THEN s.autoping.table[id + 1] ELSE RawEntry

\* an optional keyword argument: None when not supplied
Opt(a, k) == IF k \in DOMAIN a THEN Some(a[k]) ELSE None

----------------------------------------------------------------------------
(* http_server.py: the tools. Each takes the keyword arguments a, the       *)
(* device's script f and the environment e.                                *)

\* mutant: `except Exception` placed before `except PowerSwitchError`
ExceptStrShadowed(s) == Text(<<"Unexpected error: ", s.exc[1].msg>>)

\* the two except clauses of a tool that returns str
ExceptStr(s) ==
    IF s.exc[1].type = "PowerSwitchError"
    THEN Text(<<"Error: ", s.exc[1].msg>>)
    ELSE Text(<<"Unexpected error: ", s.exc[1].msg>>)

\* the two except clauses of a tool that returns a mapping
ExceptDict(s) ==
    IF s.exc[1].type = "PowerSwitchError"
    THEN Mapping([error |-> <<s.exc[1].msg>>])
    ELSE Mapping([error |-> <<"Unexpected error: ", s.exc[1].msg>>])

outlet_on(a, f, e) ==
    IF ~Bound(a, {"outlet_id"}) THEN Raised(MissingArgument("outlet_on"), Run(f))
    ELSE LET s1 == get_device(Run(f), e)
             s2 == DeviceCall(s1, [m |-> "on", outlet |-> a.outlet_id])
         IN  IF s2.exc = None
             THEN Returned(Text(<<"Outlet ", ToString(a.outlet_id + 1), " turned ON">>), s2)
             ELSE Returned(ExceptStr(s2), s2)

\* mutant: outlet_off calls the outlet's cycle()
outlet_off_cycles(a, f, e) ==
    IF ~Bound(a, {"outlet_id"}) THEN Raised(MissingArgument("outlet_off"), Run(f))
    ELSE LET s1 == get_device(Run(f), e)
             s2 == DeviceCall(s1, [m |-> "cycle", outlet |-> a.outlet_id])
         IN  IF s2.exc = None
             THEN Returned(Text(<<"Outlet ", ToString(a.outlet_id + 1), " turned OFF">>), s2)
             ELSE Returned(ExceptStr(s2), s2)

outlet_off(a, f, e) ==
    IF ~Bound(a, {"outlet_id"}) THEN Raised(MissingArgument("outlet_off"), Run(f))
    ELSE LET s1 == get_device(Run(f), e)
             s2 == DeviceCall(s1, [m |-> "off", outlet |-> a.outlet_id])
         IN  IF s2.exc = None
             THEN Returned(Text(<<"Outlet ", ToString(a.outlet_id + 1), " turned OFF">>), s2)
             ELSE Returned(ExceptStr(s2), s2)

outlet_cycle(a, f, e) ==
    IF ~Bound(a, {"outlet_id"}) THEN Raised(MissingArgument("outlet_cycle"), Run(f))
    ELSE LET s1 == get_device(Run(f), e)
             s2 == DeviceCall(s1, [m |-> "cycle", outlet |-> a.outlet_id])
         IN  IF s2.exc = None
             THEN Returned(Text(<<"Outlet ", ToString(a.outlet_id + 1), " power cycled">>), s2)
             ELSE Returned(ExceptStr(s2), s2)

\* mutant: a failed read of the state is tried once more
get_outlet_state_retries(a, f, e) ==
    IF ~Bound(a, {"outlet_id"}) THEN Raised(MissingArgument("get_outlet_state"), Run(f))
    ELSE LET s1 == get_device(Run(f), e)
             s2 == DeviceCall(s1, [m |-> "state", outlet |-> a.outlet_id])
             s3 == IF s2.failed # 0
                   THEN DeviceCall([s2 EXCEPT !.exc = None],
                                   [m |-> "state", outlet |-> a.outlet_id])
                   ELSE s2
             state_str == OnOff(s3.power[a.outlet_id])
         IN  IF s3.exc = None
             THEN Returned(Text(<<"Outlet ", ToString(a.outlet_id + 1), " is ", state_str>>), s3)
             ELSE Returned(ExceptStr(s3), s3)

get_outlet_state(a, f, e) ==
    IF ~Bound(a, {"outlet_id"}) THEN Raised(MissingArgument("get_outlet_state"), Run(f))
    ELSE LET s1 == get_device(Run(f), e)
             s2 == DeviceCall(s1, [m |-> "state", outlet |-> a.outlet_id])
             state_str == OnOff(s2.power[a.outlet_id])
         IN  IF s2.exc = None
             THEN Returned(Text(<<"Outlet ", ToString(a.outlet_id + 1), " is ", state_str>>), s2)
             ELSE Returned(ExceptStr(s2), s2)

\* "\n".join(f"Outlet {i + 1}: {state_str}" for i, state in enumerate(states))
RECURSIVE StateLines(_, _)
StateLines(states, i) ==
    IF i > Len(states) THEN <<>>
    ELSE (IF i = 1 THEN <<>> ELSE <<"\n">>)
         \o <<"Outlet ", ToString((i - 1) + 1), ": ", OnOff(states[i])>>
         \o StateLines(states, i + 1)

\* device.outlets.get_all_states(): the states in outlet order, as a list
AllStates(pw) == [k \in 1..(MaxOutlet + 1) |-> pw[k - 1]]

get_all_outlet_states(a, f, e) ==
    LET s1 == get_device(Run(f), e)
        s2 == DeviceCall(s1, [m |-> "get_all_states"])
    IN  IF s2.exc = None
        THEN Returned(Text(StateLines(AllStates(s2.power), 1)), s2)
        ELSE Returned(ExceptStr(s2), s2)

get_outlet_info(a, f, e) ==
    IF ~Bound(a, {"outlet_id"}) THEN Raised(MissingArgument("get_outlet_info"), Run(f))
    ELSE LET s1 == get_device(Run(f), e)
             s2 == DeviceCall(s1, [m |-> "name", outlet |-> a.outlet_id])
             s3 == DeviceCall(s2, [m |-> "state", outlet |-> a.outlet_id])
             s4 == DeviceCall(s3, [m |-> "locked", outlet |-> a.outlet_id])
         IN  IF s4.exc = None
             THEN Returned(Mapping([id |-> a.outlet_id,
                                    name |-> DeviceName(a.outlet_id),
                                    state |-> OnOff(s4.power[a.outlet_id]),
                                    locked |-> DeviceLocked(a.outlet_id)]), s4)
             ELSE Returned(ExceptDict(s4), s4)

\* mutant: the device is given the number shown to the operator
set_outlet_name_one_based(a, f, e) ==
    IF ~Bound(a, {"outlet_id", "name"}) THEN Raised(MissingArgument("set_outlet_name"), Run(f))
    ELSE LET s1 == get_device(Run(f), e)
             s2 == DeviceCall(s1, [m |-> "set_name", outlet |-> a.outlet_id + 1,
                                   name |-> a.name])
         IN  IF s2.exc = None
             THEN Returned(Text(<<"Outlet ", ToString(a.outlet_id + 1), " renamed to '",
                                  a.name, "'">>), s2)
             ELSE Returned(ExceptStr(s2), s2)

set_outlet_name(a, f, e) ==
    IF ~Bound(a, {"outlet_id", "name"}) THEN Raised(MissingArgument("set_outlet_name"), Run(f))
    ELSE LET s1 == get_device(Run(f), e)
             s2 == DeviceCall(s1, [m |-> "set_name", outlet |-> a.outlet_id, name |-> a.name])
         IN  IF s2.exc = None
             THEN Returned(Text(<<"Outlet ", ToString(a.outlet_id + 1), " renamed to '",
                                  a.name, "'">>), s2)
             ELSE Returned(ExceptStr(s2), s2)

get_power_metrics(a, f, e) ==
    LET s1 == get_device(Run(f), e)
        s2 == DeviceCall(s1, [m |-> "get_voltage"])
        s3 == DeviceCall(s2, [m |-> "get_current"])
        s4 == DeviceCall(s3, [m |-> "get_power"])
        s5 == DeviceCall(s4, [m |-> "get_energy"])
    IN  IF s5.exc = None
        THEN Returned(Mapping([voltage_v |-> Voltage, current_a |-> Current,
                               power_w |-> Power, energy_kwh |-> Energy]), s5)
        ELSE Returned(ExceptDict(s5), s5)

get_device_info(a, f, e) ==
    LET s1 == get_device(Run(f), e)
        s2 == DeviceCall(s1, [m |-> "info"])
    IN  IF s2.exc = None
        THEN Returned(Mapping(DeviceInfo), s2)
        ELSE Returned(ExceptDict(s2), s2)

\* mutant: the loop stops after the first listed outlet
RECURSIVE BulkLoopFirstOnly(_, _, _)
BulkLoopFirstOnly(s, action, ids) ==
    IF ids = <<>> \/ s.exc # None THEN s
    ELSE IF action \in Actions
         THEN DeviceCall(s, [m |-> action, outlet |-> Head(ids)])
         ELSE s

\* mutant: a failed outlet call is kept for the end of the loop, and the
\* outlets after it are still called
RECURSIVE BulkLoopContinues(_, _, _)
BulkLoopContinues(s, action, ids) ==
    IF ids = <<>> \/ s.dev = None THEN s
    ELSE LET s1 == IF action \in Actions
                   THEN DeviceCall([s EXCEPT !.exc = None],
                                   [m |-> action, outlet |-> Head(ids)])
                   ELSE s
             s2 == BulkLoopContinues(s1, action, Tail(ids))
         IN  IF s1.exc # None THEN [s2 EXCEPT !.exc = s1.exc] ELSE s2

\* mutant: the loop reads each outlet's locked flag and passes over a locked
\* outlet
RECURSIVE BulkLoopSkipsLocked(_, _, _)
BulkLoopSkipsLocked(s, action, ids) ==
    IF ids = <<>> \/ s.exc # None THEN s
    ELSE LET s0 == DeviceCall(s, [m |-> "locked", outlet |-> Head(ids)])
             s1 == IF action \in Actions /\ ~DeviceLocked(Head(ids))
                   THEN DeviceCall(s0, [m |-> action, outlet |-> Head(ids)])
                   ELSE s0
         IN  BulkLoopSkipsLocked(s1, action, Tail(ids))

\* for outlet_id in outlet_ids: outlet = device.outlets[outlet_id];
\*     on() / off() / cycle() by action, nothing for any other action
RECURSIVE BulkLoop(_, _, _)
BulkLoop(s, action, ids) ==
    IF ids = <<>> \/ s.exc # None THEN s
    ELSE LET s1 == IF action = "on" THEN DeviceCall(s, [m |-> "on", outlet |-> Head(ids)])
                   ELSE IF action = "off"
                        THEN DeviceCall(s, [m |-> "off", outlet |-> Head(ids)])
                   ELSE IF action = "cycle"
                        THEN DeviceCall(s, [m |-> "cycle", outlet |-> Head(ids)])
                   ELSE s
         IN  BulkLoop(s1, action, Tail(ids))

\* mutant: the omitted list is served by iterating over every outlet
BulkAllPerOutlet(s, action) == BulkLoop(s, action, [k \in 1..(MaxOutlet + 1) |-> k - 1])

\* device.outlets.bulk_operation(locked=False, action=action)
BulkAll(s, action) ==
    DeviceCall(s, [m |-> "bulk_operation", locked |-> FALSE, action |-> action])

\* mutant: an empty list counts as no list (`if outlet_ids:`)
bulk_outlet_operation_falsy_list(a, f, e) ==
    IF ~Bound(a, {"action"}) THEN Raised(MissingArgument("bulk_outlet_operation"), Run(f))
    ELSE LET outlet_ids == Opt(a, "outlet_ids")
             given == outlet_ids # None /\ outlet_ids[1] # <<>>
             s1 == get_device(Run(f), e)
             s2 == IF given
                   THEN BulkLoop(s1, a.action, outlet_ids[1])
                   ELSE BulkAll(s1, a.action)
             msg == IF given
                    THEN <<"Performed '", a.action, "' on outlets: ">>
                         \o ListRepr(OneBased(outlet_ids[1]))
                    ELSE <<"Performed '", a.action, "' on all unlocked outlets">>
         IN  IF s2.exc = None
             THEN Returned(Text(msg), s2)
             ELSE Returned(ExceptStr(s2), s2)

bulk_outlet_operation(a, f, e) ==
    IF ~Bound(a, {"action"}) THEN Raised(MissingArgument("bulk_outlet_operation"), Run(f))
    ELSE LET outlet_ids == Opt(a, "outlet_ids")
             s1 == get_device(Run(f), e)
             s2 == IF outlet_ids # None
                   THEN BulkLoop(s1, a.action, outlet_ids[1])
                   ELSE BulkAll(s1, a.action)
             msg == IF outlet_ids # None
                    THEN <<"Performed '", a.action, "' on outlets: ">>
                         \o ListRepr(OneBased(outlet_ids[1]))
                    ELSE <<"Performed '", a.action, "' on all unlocked outlets">>
         IN  IF s2.exc = None
             THEN Returned(Text(msg), s2)
             ELSE Returned(ExceptStr(s2), s2)

\* mutant: the device is given the outlet's one-based number
autoping_add_entry_one_based(a, f, e) ==
    IF ~Bound(a, {"host", "outlet_id"})
    THEN Raised(MissingArgument("autoping_add_entry"), Run(f))
    ELSE LET enabled == IF "enabled" \in DOMAIN a THEN a.enabled ELSE TRUE
             interval == IF "interval" \in DOMAIN a THEN a.interval ELSE 60
             retries == IF "retries" \in DOMAIN a THEN a.retries ELSE 3
             kw == [host |-> a.host, outlet |-> a.outlet_id + 1, enabled |-> enabled,
                    interval |-> interval, retries |-> retries]
             s1 == get_device(Run(f), e)
             s2 == DeviceCall(s1, [m |-> "add_entry", kwargs |-> kw])
         IN  IF s2.exc = None
             THEN Returned(Text(<<"Added AutoPing entry for host ", a.host, " on outlet ",
                                  ToString(a.outlet_id + 1), "\n">>
                                \o PyReprEntry(Created(kw))), s2)
             ELSE Returned(ExceptStr(s2), s2)

autoping_add_entry(a, f, e) ==
    IF ~Bound(a, {"host", "outlet_id"})
    THEN Raised(MissingArgument("autoping_add_entry"), Run(f))
    ELSE LET enabled == IF "enabled" \in DOMAIN a THEN a.enabled ELSE TRUE
             interval == IF "interval" \in DOMAIN a THEN a.interval ELSE 60
             retries == IF "retries" \in DOMAIN a THEN a.retries ELSE 3
             kw == [host |-> a.host, outlet |-> a.outlet_id, enabled |-> enabled,
                    interval |-> interval, retries |-> retries]
             s1 == get_device(Run(f), e)
             s2 == DeviceCall(s1, [m |-> "add_entry", kwargs |-> kw])
         IN  IF s2.exc = None
             THEN Returned(Text(<<"Added AutoPing entry for host ", a.host, " on outlet ",
                                  ToString(a.outlet_id + 1), "\n">>
                                \o PyReprEntry(Created(kw))), s2)
             ELSE Returned(ExceptStr(s2), s2)

\* one entry of autoping_list_entries; host_status is the first element of
\* status["hosts"] when there is one
HttpEntryLines(i, entry) ==
    LET hosts == IF "addresses" \in DOMAIN entry THEN entry.addresses ELSE <<>>
        host == IF hosts # <<>> THEN hosts[1] ELSE "N/A"
        outlets == IF "outlets" \in DOMAIN entry THEN entry.outlets ELSE <<>>
        outlet == IF outlets # <<>> THEN outlets[1] ELSE -1
        has_status == "status" \in DOMAIN entry /\ entry.status.hosts # <<>>
        success_count == IF has_status THEN entry.status.hosts[1].success_count ELSE 0
        failure_count == IF has_status THEN entry.status.hosts[1].failure_count ELSE 0
        active == has_status /\ entry.status.hosts[1].state
        enabled == IF "enabled" \in DOMAIN entry THEN entry.enabled ELSE FALSE
    IN  <<"Entry ", ToString(i), ":\n", "  Host: ", host, "\n",
          "  Outlet: ", ToString(outlet + 1), "\n",
          "  Enabled: ", PyBool(enabled), "\n",
          "  State: ", (IF active THEN "Active" ELSE "Inactive"), "\n",
          "  Success: ", ToString(success_count), " | Failures: ", ToString(failure_count)>>

\* `outlet + 1` raises TypeError when the entry's outlet is not a number
HttpEntryFormats(entry) ==
    ("outlets" \in DOMAIN entry /\ entry.outlets # <<>>) => entry.numeric

RECURSIVE HttpEntriesText(_, _)
HttpEntriesText(entries, i) ==
    IF i > Len(entries) THEN <<>>
    ELSE (IF i = 1 THEN <<>> ELSE <<"\n\n">>)
         \o HttpEntryLines(i - 1, entries[i]) \o HttpEntriesText(entries, i + 1)

autoping_list_entries(a, f, e) ==
    LET s1 == get_device(Run(f), e)
        s2 == DeviceCall(s1, [m |-> "list_entries"])
        entries == ListedEntries(s1)
        s3 == IF s2.exc = None /\ \E i \in 1..Len(entries) : ~HttpEntryFormats(entries[i])
              THEN Raise(s2, Exc("TypeError", "unsupported operand type(s) for +"))
              ELSE s2
    IN  IF s3.exc = None
        THEN IF entries # <<>>
             THEN Returned(Text(HttpEntriesText(entries, 1)), s3)
             ELSE Returned(Text(<<"No AutoPing entries configured">>), s3)
        ELSE Returned(ExceptStr(s3), s3)

autoping_get_entry(a, f, e) ==
    IF ~Bound(a, {"entry_id"}) THEN Raised(MissingArgument("autoping_get_entry"), Run(f))
    ELSE LET s1 == get_device(Run(f), e)
             s2 == DeviceCall(s1, [m |-> "get_entry", entry_id |-> a.entry_id])
         IN  IF s2.exc = None
             THEN Returned(Mapping(GotEntry(s2, a.entry_id)), s2)
             ELSE Returned(ExceptDict(s2), s2)

\* mutant: the options are tested for truth, so a false one counts as absent
autoping_update_entry_truthy(a, f, e) ==
    IF ~Bound(a, {"entry_id"}) THEN Raised(MissingArgument("autoping_update_entry"), Run(f))
    ELSE LET kw == [entry_id |-> a.entry_id, host |-> Opt(a, "host"),
                    outlet |-> Opt(a, "outlet_id"),
                    enabled |-> IF "enabled" \in DOMAIN a /\ a.enabled THEN Some(TRUE)
                                ELSE None,
                    interval |-> Opt(a, "interval"), retries |-> Opt(a, "retries")]
             s1 == get_device(Run(f), e)
             s2 == DeviceCall(s1, [m |-> "update_entry", kwargs |-> kw])
             status == IF Succeeds(s1, a.entry_id) THEN "updated successfully"
                       ELSE "update failed"
         IN  IF s2.exc = None
             THEN Returned(Text(<<"AutoPing entry ", ToString(a.entry_id), " ", status>>), s2)
             ELSE Returned(ExceptStr(s2), s2)

autoping_update_entry(a, f, e) ==
    IF ~Bound(a, {"entry_id"}) THEN Raised(MissingArgument("autoping_update_entry"), Run(f))
    ELSE LET kw == [entry_id |-> a.entry_id, host |-> Opt(a, "host"),
                    outlet |-> Opt(a, "outlet_id"), enabled |-> Opt(a, "enabled"),
                    interval |-> Opt(a, "interval"), retries |-> Opt(a, "retries")]
             s1 == get_device(Run(f), e)
             s2 == DeviceCall(s1, [m |-> "update_entry", kwargs |-> kw])
             status == IF Succeeds(s1, a.entry_id) THEN "updated successfully" ELSE "update failed"
         IN  IF s2.exc = None
             THEN Returned(Text(<<"AutoPing entry ", ToString(a.entry_id), " ", status>>), s2)
             ELSE Returned(ExceptStr(s2), s2)

autoping_delete_entry(a, f, e) ==
    IF ~Bound(a, {"entry_id"}) THEN Raised(MissingArgument("autoping_delete_entry"), Run(f))
    ELSE LET s1 == get_device(Run(f), e)
             s2 == DeviceCall(s1, [m |-> "delete_entry", entry_id |-> a.entry_id])
             status == IF Succeeds(s1, a.entry_id) THEN "deleted successfully" ELSE "delete failed"
         IN  IF s2.exc = None
             THEN Returned(Text(<<"AutoPing entry ", ToString(a.entry_id), " ", status>>), s2)
             ELSE Returned(ExceptStr(s2), s2)

autoping_enable_entry(a, f, e) ==
    IF ~Bound(a, {"entry_id"}) THEN Raised(MissingArgument("autoping_enable_entry"), Run(f))
    ELSE LET s1 == get_device(Run(f), e)
             s2 == DeviceCall(s1, [m |-> "enable_entry", entry_id |-> a.entry_id])
             status == IF Succeeds(s1, a.entry_id) THEN "enabled successfully" ELSE "enable failed"
         IN  IF s2.exc = None
             THEN Returned(Text(<<"AutoPing entry ", ToString(a.entry_id), " ", status>>), s2)
             ELSE Returned(ExceptStr(s2), s2)

autoping_disable_entry(a, f, e) ==
    IF ~Bound(a, {"entry_id"}) THEN Raised(MissingArgument("autoping_disable_entry"), Run(f))
    ELSE LET s1 == get_device(Run(f), e)
             s2 == DeviceCall(s1, [m |-> "disable_entry", entry_id |-> a.entry_id])
             status == IF Succeeds(s1, a.entry_id) THEN "disabled successfully" ELSE "disable failed"
         IN  IF s2.exc = None
             THEN Returned(Text(<<"AutoPing entry ", ToString(a.entry_id), " ", status>>), s2)
             ELSE Returned(ExceptStr(s2), s2)

----------------------------------------------------------------------------
(* server.py: call_tool. A branch takes the argument mapping and the run    *)
(* state after get_device, and yields the run state and the text it builds. *)

\* arguments[k]: KeyError when the mapping has no such key
Lookup(s, arguments, k) ==
    IF s.exc # None \/ k \in DOMAIN arguments THEN s ELSE Raise(s, Exc("KeyError", k))

\* the text is built only when nothing was raised on the way
Branch(s, text) == [s |-> s, text |-> IF s.exc = None THEN text ELSE <<>>]

\* json.dumps(info, indent=2) of the outlet info mapping
JsonOutletInfo(id, name, state, is_locked) ==
    <<"{\n  \"id\": ", ToString(id), ",\n  \"name\": \"", name,
      "\",\n  \"state\": \"", state, "\",\n  \"locked\": ", JsonBool(is_locked), "\n}">>

JsonMetrics ==
    <<"{\n  \"voltage_v\": ", Voltage, ",\n  \"current_a\": ", Current,
      ",\n  \"power_w\": ", Power, ",\n  \"energy_kwh\": ", Energy, "\n}">>

JsonDeviceInfo ==
    <<"{\n  \"serial\": \"", DeviceInfo.serial, "\",\n  \"firmware\": \"",
      DeviceInfo.firmware, "\",\n  \"model\": \"", DeviceInfo.model, "\"\n}">>

JsonCreated(r) ==
    <<"{\n  \"host\": \"", r.host, "\",\n  \"outlet\": ", ToString(r.outlet),
      ",\n  \"enabled\": ", JsonBool(r.enabled), ",\n  \"interval\": ", ToString(r.interval),
      ",\n  \"retries\": ", ToString(r.retries), "\n}">>

JsonRawEntry ==
    <<"{\n  \"addresses\": [\n    \"", RawEntry.addresses[1], "\"\n  ],\n  \"outlets\": [\n    ",
      ToString(RawEntry.outlets[1]), "\n  ],\n  \"enabled\": ", JsonBool(RawEntry.enabled),
      ",\n  \"status\": {\n    \"hosts\": [\n      {\n        \"state\": ",
      JsonBool(RawEntry.status.hosts[1].state), ",\n        \"success_count\": ",
      ToString(RawEntry.status.hosts[1].success_count), ",\n        \"failure_count\": ",
      ToString(RawEntry.status.hosts[1].failure_count), "\n      }\n    ]\n  }\n}">>

tool_outlet_on(arguments, s) ==
    LET s1 == Lookup(s, arguments, "outlet_id")
        s2 == DeviceCall(s1, [m |-> "on", outlet |-> arguments.outlet_id])
    IN  Branch(s2, <<"Outlet ", ToString(arguments.outlet_id + 1), " turned ON">>)

tool_outlet_off(arguments, s) ==
    LET s1 == Lookup(s, arguments, "outlet_id")
        s2 == DeviceCall(s1, [m |-> "off", outlet |-> arguments.outlet_id])
    IN  Branch(s2, <<"Outlet ", ToString(arguments.outlet_id + 1), " turned OFF">>)

tool_outlet_cycle(arguments, s) ==
    LET s1 == Lookup(s, arguments, "outlet_id")
        s2 == DeviceCall(s1, [m |-> "cycle", outlet |-> arguments.outlet_id])
    IN  Branch(s2, <<"Outlet ", ToString(arguments.outlet_id + 1), " power cycled">>)

tool_get_outlet_state(arguments, s) ==
    LET s1 == Lookup(s, arguments, "outlet_id")
        s2 == DeviceCall(s1, [m |-> "state", outlet |-> arguments.outlet_id])
    IN  Branch(s2, <<"Outlet ", ToString(arguments.outlet_id + 1), " is ",
                     OnOff(s2.power[arguments.outlet_id])>>)

tool_get_all_outlet_states(arguments, s) ==
    LET s1 == DeviceCall(s, [m |-> "get_all_states"])
    IN  Branch(s1, StateLines(AllStates(s1.power), 1))

tool_get_outlet_info(arguments, s) ==
    LET s1 == Lookup(s, arguments, "outlet_id")
        s2 == DeviceCall(s1, [m |-> "name", outlet |-> arguments.outlet_id])
        s3 == DeviceCall(s2, [m |-> "state", outlet |-> arguments.outlet_id])
        s4 == DeviceCall(s3, [m |-> "locked", outlet |-> arguments.outlet_id])
    IN  Branch(s4, JsonOutletInfo(arguments.outlet_id, DeviceName(arguments.outlet_id),
                                  OnOff(s4.power[arguments.outlet_id]),
                                  DeviceLocked(arguments.outlet_id)))

tool_set_outlet_name(arguments, s) ==
    LET s1 == Lookup(s, arguments, "outlet_id")
        s2 == Lookup(s1, arguments, "name")
        s3 == DeviceCall(s2, [m |-> "set_name", outlet |-> arguments.outlet_id,
                              name |-> arguments.name])
    IN  Branch(s3, <<"Outlet ", ToString(arguments.outlet_id + 1), " renamed to '",
                     arguments.name, "'">>)

tool_get_power_metrics(arguments, s) ==
    LET s1 == DeviceCall(s, [m |-> "get_voltage"])
        s2 == DeviceCall(s1, [m |-> "get_current"])
        s3 == DeviceCall(s2, [m |-> "get_power"])
        s4 == DeviceCall(s3, [m |-> "get_energy"])
    IN  Branch(s4, JsonMetrics)

tool_get_device_info(arguments, s) ==
    LET s1 == DeviceCall(s, [m |-> "info"])
    IN  Branch(s1, JsonDeviceInfo)

\* the loop of the bulk branch
RECURSIVE ToolBulkLoop(_, _, _)
ToolBulkLoop(s, action, ids) ==
    IF ids = <<>> \/ s.exc # None THEN s
    ELSE LET s1 == IF action = "on" THEN DeviceCall(s, [m |-> "on", outlet |-> Head(ids)])
                   ELSE IF action = "off"
                        THEN DeviceCall(s, [m |-> "off", outlet |-> Head(ids)])
                   ELSE IF action = "cycle"
                        THEN DeviceCall(s, [m |-> "cycle", outlet |-> Head(ids)])
                   ELSE s
         IN  ToolBulkLoop(s1, action, Tail(ids))

\* mutant: an action outside on, off, cycle is refused
tool_bulk_outlet_operation_validates(arguments, s) ==
    LET s0 == Lookup(s, arguments, "action")
        s1 == IF s0.exc = None /\ arguments.action \notin Actions
              THEN Raise(s0, Exc("ValueError", "unknown action"))
              ELSE s0
        outlet_ids == Opt(arguments, "outlet_ids")
        s2 == IF outlet_ids # None
              THEN ToolBulkLoop(s1, arguments.action, outlet_ids[1])
              ELSE DeviceCall(s1, [m |-> "bulk_operation", locked |-> FALSE,
                                   action |-> arguments.action])
    IN  Branch(s2, IF outlet_ids # None
                   THEN <<"Performed '", arguments.action, "' on outlets: ">>
                        \o ListRepr(OneBased(outlet_ids[1]))
                   ELSE <<"Performed '", arguments.action, "' on all unlocked outlets">>)

tool_bulk_outlet_operation(arguments, s) ==
    LET s1 == Lookup(s, arguments, "action")
        outlet_ids == Opt(arguments, "outlet_ids")
        s2 == IF outlet_ids # None
              THEN ToolBulkLoop(s1, arguments.action, outlet_ids[1])
              ELSE DeviceCall(s1, [m |-> "bulk_operation", locked |-> FALSE,
                                   action |-> arguments.action])
    IN  Branch(s2, IF outlet_ids # None
                   THEN <<"Performed '", arguments.action, "' on outlets: ">>
                        \o ListRepr(OneBased(outlet_ids[1]))
                   ELSE <<"Performed '", arguments.action, "' on all unlocked outlets">>)

\* mutant: the branch falls back to another interval than the schema announces
tool_autoping_add_entry_interval(arguments, s) ==
    LET s1 == Lookup(s, arguments, "host")
        s2 == Lookup(s1, arguments, "outlet_id")
        enabled == IF "enabled" \in DOMAIN arguments THEN arguments.enabled ELSE TRUE
        interval == IF "interval" \in DOMAIN arguments THEN arguments.interval ELSE 30
        retries == IF "retries" \in DOMAIN arguments THEN arguments.retries ELSE 3
        kw == [host |-> arguments.host, outlet |-> arguments.outlet_id,
               enabled |-> enabled, interval |-> interval, retries |-> retries]
        s3 == DeviceCall(s2, [m |-> "add_entry", kwargs |-> kw])
    IN  Branch(s3, <<"Added AutoPing entry for host ", arguments.host, " on outlet ",
                     ToString(arguments.outlet_id + 1), "\n">> \o JsonCreated(Created(kw)))

tool_autoping_add_entry(arguments, s) ==
    LET s1 == Lookup(s, arguments, "host")
        s2 == Lookup(s1, arguments, "outlet_id")
        enabled == IF "enabled" \in DOMAIN arguments THEN arguments.enabled ELSE TRUE
        interval == IF "interval" \in DOMAIN arguments THEN arguments.interval ELSE 60
        retries == IF "retries" \in DOMAIN arguments THEN arguments.retries ELSE 3
        kw == [host |-> arguments.host, outlet |-> arguments.outlet_id,
               enabled |-> enabled, interval |-> interval, retries |-> retries]
        s3 == DeviceCall(s2, [m |-> "add_entry", kwargs |-> kw])
    IN  Branch(s3, <<"Added AutoPing entry for host ", arguments.host, " on outlet ",
                     ToString(arguments.outlet_id + 1), "\n">> \o JsonCreated(Created(kw)))

\* one entry of the list branch: entry.get(key, 'N/A') for each line
ToolEntryLines(i, entry) ==
    <<"Entry ", ToString(i), ":\n",
      "  Host: ", (IF "host" \in DOMAIN entry THEN entry.host ELSE "N/A"), "\n",
      "  Outlet: ", ToString((IF "outlet" \in DOMAIN entry THEN entry.outlet ELSE -1) + 1),
      "\n",
      "  Enabled: ", (IF "enabled" \in DOMAIN entry THEN PyBool(entry.enabled) ELSE "N/A"),
      "\n",
      "  Interval: ",
      (IF "interval" \in DOMAIN entry THEN ToString(entry.interval) ELSE "N/A"), "s\n",
      "  Retries: ", (IF "retries" \in DOMAIN entry THEN ToString(entry.retries) ELSE "N/A")>>

\* int(entry.get('outlet', -1)) raises ValueError when the value is not a number
ToolEntryFormats(entry) == "outlet" \in DOMAIN entry => entry.numeric

RECURSIVE ToolEntriesText(_, _)
ToolEntriesText(entries, i) ==
    IF i > Len(entries) THEN <<>>
    ELSE (IF i = 1 THEN <<>> ELSE <<"\n\n">>)
         \o ToolEntryLines(i - 1, entries[i]) \o ToolEntriesText(entries, i + 1)

tool_autoping_list_entries(arguments, s) ==
    LET s1 == DeviceCall(s, [m |-> "list_entries"])
        entries == ListedEntries(s)
        s2 == IF s1.exc = None /\ \E i \in 1..Len(entries) : ~ToolEntryFormats(entries[i])
              THEN Raise(s1, Exc("ValueError", "invalid literal for int()"))
              ELSE s1
    IN  Branch(s2, IF entries # <<>> THEN ToolEntriesText(entries, 1)
                   ELSE <<"No AutoPing entries configured">>)

tool_autoping_get_entry(arguments, s) ==
    LET s1 == Lookup(s, arguments, "entry_id")
        s2 == DeviceCall(s1, [m |-> "get_entry", entry_id |-> arguments.entry_id])
    IN  Branch(s2, IF s2.autoping.kept THEN JsonCreated(GotEntry(s2, arguments.entry_id))
                   ELSE JsonRawEntry)

tool_autoping_update_entry(arguments, s) ==
    LET s1 == Lookup(s, arguments, "entry_id")
        kw == [entry_id |-> arguments.entry_id, host |-> Opt(arguments, "host"),
               outlet |-> Opt(arguments, "outlet_id"), enabled |-> Opt(arguments, "enabled"),
               interval |-> Opt(arguments, "interval"), retries |-> Opt(arguments, "retries")]
        s2 == DeviceCall(s1, [m |-> "update_entry", kwargs |-> kw])
    IN  Branch(s2, <<"AutoPing entry ", ToString(arguments.entry_id), " ",
                     (IF Succeeds(s1, arguments.entry_id) THEN "updated successfully" ELSE "update failed")>>)

tool_autoping_delete_entry(arguments, s) ==
    LET s1 == Lookup(s, arguments, "entry_id")
        s2 == DeviceCall(s1, [m |-> "delete_entry", entry_id |-> arguments.entry_id])
    IN  Branch(s2, <<"AutoPing entry ", ToString(arguments.entry_id), " ",
                     (IF Succeeds(s1, arguments.entry_id) THEN "deleted successfully" ELSE "delete failed")>>)

tool_autoping_enable_entry(arguments, s) ==
    LET s1 == Lookup(s, arguments, "entry_id")
        s2 == DeviceCall(s1, [m |-> "enable_entry", entry_id |-> arguments.entry_id])
    IN  Branch(s2, <<"AutoPing entry ", ToString(arguments.entry_id), " ",
                     (IF Succeeds(s1, arguments.entry_id) THEN "enabled successfully" ELSE "enable failed")>>)

tool_autoping_disable_entry(arguments, s) ==
    LET s1 == Lookup(s, arguments, "entry_id")
        s2 == DeviceCall(s1, [m |-> "disable_entry", entry_id |-> arguments.entry_id])
    IN  Branch(s2, <<"AutoPing entry ", ToString(arguments.entry_id), " ",
                     (IF Succeeds(s1, arguments.entry_id) THEN "disabled successfully" ELSE "disable failed")>>)

\* mutant: the handler has no `except Exception` clause
call_tool_except_narrow(s) ==
    IF s.exc[1].type = "PowerSwitchError"
    THEN Returned(Text(<<"Error: ", s.exc[1].msg>>), s)
    ELSE Raised(s.exc[1], s)

\* except PowerSwitchError / except Exception of call_tool
call_tool_except(s) ==
    IF s.exc[1].type = "PowerSwitchError"
    THEN Returned(Text(<<"Error: ", s.exc[1].msg>>), s)
    ELSE Returned(Text(<<"Unexpected error: ", s.exc[1].msg>>), s)

\* mutant: the handler has no final else and fails on a name it does not know
unknown_tool_raises(name, s) ==
    Branch(Raise(s, Exc("ValueError", "no handler")), <<>>)

\* else: return [TextContent(type="text", text=f"Unknown tool: {name}")]
unknown_tool(name, s) == Branch(s, <<"Unknown tool: ", name>>)

\* names no branch of call_tool matches (the comparison is case-sensitive)
UnknownNames == {"reboot_device", "OUTLET_ON"}

ToolNames ==
    {"outlet_on", "outlet_off", "outlet_cycle", "get_outlet_state",
     "get_all_outlet_states", "get_outlet_info", "set_outlet_name", "get_power_metrics",
     "get_device_info", "bulk_outlet_operation", "autoping_add_entry",
     "autoping_list_entries", "autoping_get_entry", "autoping_update_entry",
     "autoping_delete_entry", "autoping_enable_entry", "autoping_disable_entry"}

call_tool(name, arguments, f, e) ==
    LET s == server_get_device(Run(f), e)
        b == CASE name = "outlet_on" -> tool_outlet_on(arguments, s)
               [] name = "outlet_off" -> tool_outlet_off(arguments, s)
               [] name = "outlet_cycle" -> tool_outlet_cycle(arguments, s)
               [] name = "get_outlet_state" -> tool_get_outlet_state(arguments, s)
               [] name = "get_all_outlet_states" -> tool_get_all_outlet_states(arguments, s)
               [] name = "get_outlet_info" -> tool_get_outlet_info(arguments, s)
               [] name = "set_outlet_name" -> tool_set_outlet_name(arguments, s)
               [] name = "get_power_metrics" -> tool_get_power_metrics(arguments, s)
               [] name = "get_device_info" -> tool_get_device_info(arguments, s)
               [] name = "bulk_outlet_operation" -> tool_bulk_outlet_operation(arguments, s)
               [] name = "autoping_add_entry" -> tool_autoping_add_entry(arguments, s)
               [] name = "autoping_list_entries" -> tool_autoping_list_entries(arguments, s)
               [] name = "autoping_get_entry" -> tool_autoping_get_entry(arguments, s)
               [] name = "autoping_update_entry" -> tool_autoping_update_entry(arguments, s)
               [] name = "autoping_delete_entry" -> tool_autoping_delete_entry(arguments, s)
               [] name = "autoping_enable_entry" -> tool_autoping_enable_entry(arguments, s)
               [] name = "autoping_disable_entry" -> tool_autoping_disable_entry(arguments, s)
               [] OTHER -> unknown_tool(name, s)
    IN  IF b.s.exc = None THEN Returned(Text(b.text), b.s) ELSE call_tool_except(b.s)

----------------------------------------------------------------------------
(* http_server.py: the registry @mcp.tool() fills, by function name *)

http_tool(name, a, f, e) ==
    CASE name = "outlet_on" -> outlet_on(a, f, e)
      [] name = "outlet_off" -> outlet_off(a, f, e)
      [] name = "outlet_cycle" -> outlet_cycle(a, f, e)
      [] name = "get_outlet_state" -> get_outlet_state(a, f, e)
      [] name = "get_all_outlet_states" -> get_all_outlet_states(a, f, e)
      [] name = "get_outlet_info" -> get_outlet_info(a, f, e)
      [] name = "set_outlet_name" -> set_outlet_name(a, f, e)
      [] name = "get_power_metrics" -> get_power_metrics(a, f, e)
      [] name = "get_device_info" -> get_device_info(a, f, e)
      [] name = "bulk_outlet_operation" -> bulk_outlet_operation(a, f, e)
      [] name = "autoping_add_entry" -> autoping_add_entry(a, f, e)
      [] name = "autoping_list_entries" -> autoping_list_entries(a, f, e)
      [] name = "autoping_get_entry" -> autoping_get_entry(a, f, e)
      [] name = "autoping_update_entry" -> autoping_update_entry(a, f, e)
      [] name = "autoping_delete_entry" -> autoping_delete_entry(a, f, e)
      [] name = "autoping_enable_entry" -> autoping_enable_entry(a, f, e)
      [] name = "autoping_disable_entry" -> autoping_disable_entry(a, f, e)

----------------------------------------------------------------------------
(* Observation of an invocation *)

NoArgs == [k \in {} |-> 0]

\* what is remembered of the invocation before the last one: which it was
\* and whether it returned without any exception
Digest(l) == [op |-> l.op, args |-> l.args, ok |-> l.out = "return" /\ l.exc = None]

Idle ==
    [op |-> "none", args |-> NoArgs, pre |-> None, prePower |-> [o \in Outlets |-> FALSE],
     out |-> "none", result |-> NoArgs, exc |-> None, calls |-> <<>>, failed |-> 0,
     ctor |-> 0,
     prev |-> [op |-> "none", args |-> NoArgs, ok |-> FALSE]]

\* The invocation `op(args)` ended in run state s with outcome `out` and `result`.
Observe(op, args, out, result, s) ==
    /\ _device' = s.dev
    /\ ctorCalls' = s.ctor
    /\ power' = s.power
    /\ autoping' = s.autoping
    /\ last' = [op |-> op, args |-> args, pre |-> _device, prePower |-> power,
                out |-> out, result |-> result, exc |-> s.exc,
                calls |-> s.calls, failed |-> s.failed, ctor |-> s.ctor - ctorCalls,
                prev |-> Digest(last)]

----------------------------------------------------------------------------
(* The accessor called directly, with the environment changing around it *)

\* A direct call of the running module's get_device (as the unit tests make it)
GetDevice ==
    LET s == IF transport = "http" THEN get_device(Run(NoFault), env)
                                   ELSE server_get_device(Run(NoFault), env)
    IN  /\ IF s.exc = None
           THEN Observe("get_device", NoArgs, "return", [handle |-> s.dev], s)
           ELSE Observe("get_device", NoArgs, "raise", [raised |-> s.exc[1]], s)
        /\ UNCHANGED <<transport, env, locked, serving, pc, local>>

\* os.environ[k] = v; `last` describes an invocation only while nothing
\* has happened since
SetEnv ==
    \E k \in EnvNames : \E v \in EnvValues(k) :
        /\ env' = [n \in DOMAIN env \cup {k} |-> IF n = k THEN v ELSE env[n]]
        /\ env' # env
        /\ last' = Idle
        /\ UNCHANGED <<transport, _device, ctorCalls, power, autoping, locked, serving, pc, local>>

\* del os.environ[k]
DelEnv ==
    \E k \in DOMAIN env :
        /\ env' = [n \in DOMAIN env \ {k} |-> env[n]]
        /\ last' = Idle
        /\ UNCHANGED <<transport, _device, ctorCalls, power, autoping, locked, serving, pc, local>>

\* The environment the test fixture sets up
FixtureEnv ==
    [n \in EnvNames |->
        CASE n = "POWER_SWITCH_HOST" -> "192.168.0.100"
          [] n = "POWER_SWITCH_USERNAME" -> "operator"
          [] n = "POWER_SWITCH_PASSWORD" -> "test-password"
          [] n = "POWER_SWITCH_USE_HTTPS" -> "false"]

\* the devices a process is started against: no outlet locked (as the test
\* fixture's mock), or outlet 1 locked
LockSets == {{}, {1}}

InitProcess ==
    /\ transport \in {"stdio", "http"}
    /\ _device = None
    /\ ctorCalls = 0
    /\ power \in [Outlets -> BOOLEAN]
    /\ autoping = Scripted
    /\ locked \in LockSets
    /\ serving = FALSE
    /\ last = Idle
    /\ pc = [r \in Requests |-> "idle"]
    /\ local = [r \in Requests |-> None]

InitAccessor ==
    /\ InitProcess
    /\ env \in {FixtureEnv, [n \in {} |-> ""]}
    /\ power = [o \in Outlets |-> FALSE]
    /\ locked = {}

NextAccessor == GetDevice \/ SetEnv \/ DelEnv

SpecAccessor == InitAccessor /\ [][NextAccessor]_vars

----------------------------------------------------------------------------
(* The serving process: inputs of the tools *)

\* the exception types a device call raises: the library's own, or another
FaultKinds == {"PowerSwitchError", "ConnectionError"}

\* a tool issues at most MaxLen device calls, or the four meter readings
MaxCalls == IF MaxLen > 4 THEN MaxLen ELSE 4

Faults ==
    {NoFault} \cup {Script(at, k, TRUE, <<>>) : at \in 1..MaxCalls, k \in FaultKinds}

\* scripts for the tools whose text depends on what the device returns
Replies ==
    {Script(at, k, ok, <<>>) : at \in 0..1, k \in {"PowerSwitchError"}, ok \in BOOLEAN}

ListReplies ==
    {Script(at, k, TRUE, l) : at \in 0..1, k \in {"PowerSwitchError"}, l \in EntryLists}

IdLists == UNION {[1..n -> Outlets] : n \in 0..MaxLen}

OutletArgs == {[outlet_id |-> i] : i \in Outlets} \cup {NoArgs}

NameArgs ==
    {[outlet_id |-> i, name |-> "Router"] : i \in Outlets} \cup {[outlet_id |-> 0], NoArgs}

BulkArgs ==
    {[action |-> x] : x \in Actions \cup {"toggle"}}
        \cup {[action |-> x, outlet_ids |-> l] : x \in Actions \cup {"toggle"}, l \in IdLists}
        \cup {[outlet_ids |-> <<0>>]}

AddArgs ==
    {[host |-> "10.0.0.9", outlet_id |-> i] : i \in Outlets}
        \cup {[host |-> "10.0.0.9", outlet_id |-> 0, enabled |-> FALSE],
              [host |-> "10.0.0.9", outlet_id |-> 0, interval |-> 30, retries |-> 5],
              [host |-> "10.0.0.9", outlet_id |-> 0, interval |-> 30],
              [host |-> "10.0.0.9", outlet_id |-> 0, retries |-> 5],
              [host |-> "10.0.0.9"], NoArgs}

EntryArgs == {[entry_id |-> i] : i \in 0..1} \cup {NoArgs}

UpdateArgs ==
    {[entry_id |-> 0], [entry_id |-> 0, enabled |-> FALSE],
     [entry_id |-> 1, host |-> "10.0.0.9", interval |-> 30],
     [entry_id |-> 1, outlet_id |-> 0, retries |-> 5], NoArgs}

ArgsOf(name) ==
    CASE name \in {"outlet_on", "outlet_off", "outlet_cycle", "get_outlet_state",
                   "get_outlet_info"} -> OutletArgs
      [] name = "set_outlet_name" -> NameArgs
      [] name = "bulk_outlet_operation" -> BulkArgs
      [] name = "autoping_add_entry" -> AddArgs
      [] name = "autoping_update_entry" -> UpdateArgs
      [] name \in {"autoping_get_entry", "autoping_delete_entry", "autoping_enable_entry",
                   "autoping_disable_entry"} -> EntryArgs
      [] name \in UnknownNames -> {NoArgs, [outlet_id |-> 0], [action |-> "on"]}
      [] OTHER -> {NoArgs}

ScriptsOf(name) ==
    CASE name = "autoping_list_entries" -> ListReplies
      [] name \in {"autoping_update_entry", "autoping_delete_entry",
                   "autoping_enable_entry", "autoping_disable_entry"} -> Replies
      [] OTHER -> Faults

----------------------------------------------------------------------------
(* The serving process: actions *)

\* the invocation of `op` with arguments a ended as r
Invoked(op, a, r) ==
    /\ Observe(op, a, r.out, r.result, r.s)
    /\ UNCHANGED <<transport, env, locked, serving, pc, local>>

\* a start-up that resolves the credentials first and serves only when both
\* are there
MainResolvesCredentials ==
    /\ ~serving /\ last = Idle
    /\ LET s == get_device(Run(NoFault), env)
       IN  /\ serving' = (s.exc = None)
           /\ last' = [Idle EXCEPT !.op = "main",
                                   !.out = IF s.exc = None THEN "return" ELSE "raise"]
    /\ UNCHANGED <<transport, env, _device, ctorCalls, power, autoping, locked, pc, local>>

\* server.py main() / http_server.py __main__: the transport starts serving;
\* neither reads the environment nor calls get_device
Main ==
    /\ ~serving /\ last = Idle
    /\ serving' = TRUE
    /\ last' = [Idle EXCEPT !.op = "main", !.out = "return"]
    /\ UNCHANGED <<transport, env, _device, ctorCalls, power, autoping, locked, pc, local>>

\* The transport takes the handler's result and sends it to the caller;
\* requests are served one after the other.
Deliver ==
    /\ last # Idle
    /\ last' = Idle
    /\ UNCHANGED <<transport, env, _device, ctorCalls, power, autoping, locked, serving, pc, local>>

\* the stdio transport hands a request to call_tool
CallTool ==
    /\ serving /\ last = Idle /\ transport = "stdio"
    /\ \E name \in ToolNames \cup UnknownNames :
         \E a \in ArgsOf(name) : \E f \in ScriptsOf(name) :
            Invoked(name, a, call_tool(name, a, f, env))

Http(op) == serving /\ last = Idle /\ transport = "http"

HttpOutletOn ==
    /\ Http("outlet_on")
    /\ \E a \in ArgsOf("outlet_on") : \E f \in ScriptsOf("outlet_on") :
          Invoked("outlet_on", a, outlet_on(a, f, env))

HttpOutletOff ==
    /\ Http("outlet_off")
    /\ \E a \in ArgsOf("outlet_off") : \E f \in ScriptsOf("outlet_off") :
          Invoked("outlet_off", a, outlet_off(a, f, env))

HttpOutletCycle ==
    /\ Http("outlet_cycle")
    /\ \E a \in ArgsOf("outlet_cycle") : \E f \in ScriptsOf("outlet_cycle") :
          Invoked("outlet_cycle", a, outlet_cycle(a, f, env))

HttpGetOutletState ==
    /\ Http("get_outlet_state")
    /\ \E a \in ArgsOf("get_outlet_state") : \E f \in ScriptsOf("get_outlet_state") :
          Invoked("get_outlet_state", a, get_outlet_state(a, f, env))

HttpGetAllOutletStates ==
    /\ Http("get_all_outlet_states")
    /\ \E a \in ArgsOf("get_all_outlet_states") : \E f \in ScriptsOf("get_all_outlet_states") :
          Invoked("get_all_outlet_states", a, get_all_outlet_states(a, f, env))

HttpGetOutletInfo ==
    /\ Http("get_outlet_info")
    /\ \E a \in ArgsOf("get_outlet_info") : \E f \in ScriptsOf("get_outlet_info") :
          Invoked("get_outlet_info", a, get_outlet_info(a, f, env))

HttpSetOutletName ==
    /\ Http("set_outlet_name")
    /\ \E a \in ArgsOf("set_outlet_name") : \E f \in ScriptsOf("set_outlet_name") :
          Invoked("set_outlet_name", a, set_outlet_name(a, f, env))

HttpGetPowerMetrics ==
    /\ Http("get_power_metrics")
    /\ \E a \in ArgsOf("get_power_metrics") : \E f \in ScriptsOf("get_power_metrics") :
          Invoked("get_power_metrics", a, get_power_metrics(a, f, env))

HttpGetDeviceInfo ==
    /\ Http("get_device_info")
    /\ \E a \in ArgsOf("get_device_info") : \E f \in ScriptsOf("get_device_info") :
          Invoked("get_device_info", a, get_device_info(a, f, env))

HttpBulkOutletOperation ==
    /\ Http("bulk_outlet_operation")
    /\ \E a \in ArgsOf("bulk_outlet_operation") : \E f \in ScriptsOf("bulk_outlet_operation") :
          Invoked("bulk_outlet_operation", a, bulk_outlet_operation(a, f, env))

HttpAutopingAddEntry ==
    /\ Http("autoping_add_entry")
    /\ \E a \in ArgsOf("autoping_add_entry") : \E f \in ScriptsOf("autoping_add_entry") :
          Invoked("autoping_add_entry", a, autoping_add_entry(a, f, env))

HttpAutopingListEntries ==
    /\ Http("autoping_list_entries")
    /\ \E a \in ArgsOf("autoping_list_entries") : \E f \in ScriptsOf("autoping_list_entries") :
          Invoked("autoping_list_entries", a, autoping_list_entries(a, f, env))

HttpAutopingGetEntry ==
    /\ Http("autoping_get_entry")
    /\ \E a \in ArgsOf("autoping_get_entry") : \E f \in ScriptsOf("autoping_get_entry") :
          Invoked("autoping_get_entry", a, autoping_get_entry(a, f, env))

HttpAutopingUpdateEntry ==
    /\ Http("autoping_update_entry")
    /\ \E a \in ArgsOf("autoping_update_entry") : \E f \in ScriptsOf("autoping_update_entry") :
          Invoked("autoping_update_entry", a, autoping_update_entry(a, f, env))

HttpAutopingDeleteEntry ==
    /\ Http("autoping_delete_entry")
    /\ \E a \in ArgsOf("autoping_delete_entry") : \E f \in ScriptsOf("autoping_delete_entry") :
          Invoked("autoping_delete_entry", a, autoping_delete_entry(a, f, env))

HttpAutopingEnableEntry ==
    /\ Http("autoping_enable_entry")
    /\ \E a \in ArgsOf("autoping_enable_entry") : \E f \in ScriptsOf("autoping_enable_entry") :
          Invoked("autoping_enable_entry", a, autoping_enable_entry(a, f, env))

HttpAutopingDisableEntry ==
    /\ Http("autoping_disable_entry")
    /\ \E a \in ArgsOf("autoping_disable_entry") : \E f \in ScriptsOf("autoping_disable_entry") :
          Invoked("autoping_disable_entry", a, autoping_disable_entry(a, f, env))

HttpTool ==
    \/ HttpOutletOn \/ HttpOutletOff \/ HttpOutletCycle \/ HttpGetOutletState
    \/ HttpGetAllOutletStates \/ HttpGetOutletInfo \/ HttpSetOutletName
    \/ HttpGetPowerMetrics \/ HttpGetDeviceInfo \/ HttpBulkOutletOperation
    \/ HttpAutopingAddEntry \/ HttpAutopingListEntries \/ HttpAutopingGetEntry
    \/ HttpAutopingUpdateEntry \/ HttpAutopingDeleteEntry \/ HttpAutopingEnableEntry
    \/ HttpAutopingDisableEntry

\* the environments a server process is started in
ServeEnvs ==
    {FixtureEnv,
     [n \in {"POWER_SWITCH_HOST", "POWER_SWITCH_PASSWORD"} |->
         IF n = "POWER_SWITCH_HOST" THEN "10.0.0.7" ELSE ""],
     [n \in {"POWER_SWITCH_PASSWORD"} |-> "test-password"]}

Init ==
    /\ InitProcess
    /\ env \in ServeEnvs

Next == Main \/ CallTool \/ HttpTool \/ Deliver

Spec == Init /\ [][Next]_vars

----------------------------------------------------------------------------
(* A client that sends outlet requests back to back, each answered before  *)
(* the next is sent; nothing else touches the device in between.           *)

OutletOps == {"outlet_on", "outlet_off", "outlet_cycle", "get_outlet_state"}

\* the device answers, or its first call fails
OutletFaults == {NoFault, Script(1, "PowerSwitchError", TRUE, <<>>)}

\* the running server's handler for `name`
Handle(name, a, f) ==
    IF transport = "http" THEN http_tool(name, a, f, env) ELSE call_tool(name, a, f, env)

OutletRequest ==
    /\ serving
    /\ \E name \in OutletOps : \E i \in Outlets : \E f \in OutletFaults :
          Invoked(name, [outlet_id |-> i], Handle(name, [outlet_id |-> i], f))

InitOutlets ==
    /\ InitProcess
    /\ env = FixtureEnv
    /\ locked = {}

NextOutlets == Main \/ OutletRequest

SpecOutlets == InitOutlets /\ [][NextOutlets]_vars

----------------------------------------------------------------------------
(* A client that manages watchdog entries on a device that keeps them,     *)
(* one request answered before the next is sent.                           *)

AutopingOps == {"autoping_add_entry", "autoping_get_entry", "autoping_update_entry"}

EntryIds == 0..(MaxEntries - 1)

\* creations: the options left to their defaults, and all of them given
SessionAdds ==
    {[host |-> "10.0.0.9", outlet_id |-> 1],
     [host |-> "10.0.0.9", outlet_id |-> 0, enabled |-> FALSE, interval |-> 30,
      retries |-> 5]}

\* updates: no option, a false one, two of them, all of them
SessionUpdates ==
    UNION {{[entry_id |-> id],
            [entry_id |-> id, enabled |-> FALSE],
            [entry_id |-> id, host |-> "10.0.0.10", interval |-> 30],
            [entry_id |-> id, host |-> "10.0.0.10", outlet_id |-> 0, enabled |-> FALSE,
             interval |-> 30, retries |-> 5]} : id \in EntryIds}

SessionArgs(name) ==
    CASE name = "autoping_add_entry" -> SessionAdds
      [] name = "autoping_update_entry" -> SessionUpdates
      [] name = "autoping_get_entry" -> {[entry_id |-> id] : id \in EntryIds}

AutopingRequest ==
    /\ serving
    /\ \E name \in AutopingOps : \E a \in SessionArgs(name) :
          /\ name = "autoping_add_entry" => Len(autoping.table) < MaxEntries
          /\ Invoked(name, a, Handle(name, a, NoFault))

InitAutoping ==
    /\ transport \in {"stdio", "http"}
    /\ env = FixtureEnv
    /\ _device = None
    /\ ctorCalls = 0
    /\ power = [o \in Outlets |-> FALSE]
    /\ autoping = Kept(<<>>)
    /\ locked = {}
    /\ serving = FALSE
    /\ last = Idle
    /\ pc = [r \in Requests |-> "idle"]
    /\ local = [r \in Requests |-> None]

NextAutoping == Main \/ AutopingRequest

SpecAutoping == InitAutoping /\ [][NextAutoping]_vars

----------------------------------------------------------------------------
(* The same request given to both modules' handlers, each starting from    *)
(* the state the process is in; the process goes on with its own answer.   *)

\* the arguments list_tools marks "required"
Required(name) ==
    CASE name \in {"outlet_on", "outlet_off", "outlet_cycle", "get_outlet_state",
                   "get_outlet_info"} -> {"outlet_id"}
      [] name = "set_outlet_name" -> {"outlet_id", "name"}
      [] name = "bulk_outlet_operation" -> {"action"}
      [] name = "autoping_add_entry" -> {"host", "outlet_id"}
      [] name \in {"autoping_get_entry", "autoping_update_entry", "autoping_delete_entry",
                   "autoping_enable_entry", "autoping_disable_entry"} -> {"entry_id"}
      [] OTHER -> {}

\* arguments the schema accepts
ValidArgs(name) ==
    {a \in ArgsOf(name) :
        /\ Required(name) \subseteq DOMAIN a
        /\ "action" \in DOMAIN a => a.action \in Actions}

\* what the device answers when no call fails
Answers(name) ==
    CASE name = "autoping_list_entries" -> {Script(0, "none", TRUE, l) : l \in EntryLists}
      [] name \in {"autoping_update_entry", "autoping_delete_entry",
                   "autoping_enable_entry", "autoping_disable_entry"} ->
            {Script(0, "none", ok, <<>>) : ok \in BOOLEAN}
      [] OTHER -> {NoFault}

Compare ==
    /\ serving
    /\ \E name \in ToolNames : \E a \in ValidArgs(name) : \E f \in Answers(name) :
          LET rs == call_tool(name, a, f, env)
              rh == http_tool(name, a, f, env)
              r == IF transport = "http" THEN rh ELSE rs
          IN  /\ _device' = r.s.dev
              /\ ctorCalls' = r.s.ctor
              /\ power' = r.s.power
              /\ autoping' = r.s.autoping
              /\ last' = [Idle EXCEPT !.op = name, !.args = a, !.out = "compared",
                                      !.result = [stdio |-> rs.result, http |-> rh.result],
                                      !.calls = <<rs.s.calls, rh.s.calls>>]
    /\ UNCHANGED <<transport, env, locked, serving, pc, local>>

NextCompare == Main \/ Compare

SpecCompare == InitOutlets /\ [][NextCompare]_vars

----------------------------------------------------------------------------
(* get_device under concurrent requests: each statement is a step, so the  *)
(* test of `_device` and the assignment to it are separate steps.          *)

\* a request enters get_device
Call(r) ==
    /\ pc[r] = "idle"
    /\ pc' = [pc EXCEPT ![r] = "test"]
    /\ local' = [local EXCEPT ![r] = None]
    /\ UNCHANGED <<transport, env, _device, ctorCalls, power, autoping, locked, serving, last>>

\* if _device is None:
Test(r) ==
    /\ pc[r] = "test"
    /\ pc' = [pc EXCEPT ![r] = IF _device = None THEN "getenv" ELSE "return"]
    /\ UNCHANGED <<transport, env, _device, ctorCalls, power, autoping, locked, serving, last, local>>

\* host = os.getenv(...) ... use_https = ...
ReadEnv(r) ==
    /\ pc[r] = "getenv"
    /\ local' = [local EXCEPT ![r] =
          Some([host |-> getenv(env, "POWER_SWITCH_HOST"),
                username |-> getenv_default(env, "POWER_SWITCH_USERNAME", "admin"),
                password |-> getenv(env, "POWER_SWITCH_PASSWORD"),
                use_https |->
                    lower(getenv_default(env, "POWER_SWITCH_USE_HTTPS", "false")) = "true"])]
    /\ pc' = [pc EXCEPT ![r] = "validate"]
    /\ UNCHANGED <<transport, env, _device, ctorCalls, power, autoping, locked, serving, last>>

\* if not host or not password: raise ValueError(...)
Validate(r) ==
    /\ pc[r] = "validate"
    /\ pc' = [pc EXCEPT ![r] =
          IF ~Truthy(local[r][1].host) \/ ~Truthy(local[r][1].password)
          THEN "idle" ELSE "construct"]
    /\ UNCHANGED <<transport, env, _device, ctorCalls, power, autoping, locked, serving, last, local>>

\* the right-hand side of `_device = PowerSwitchPro(...)`
Construct(r) ==
    /\ pc[r] = "construct"
    /\ ctorCalls' = ctorCalls + 1
    /\ local' = [local EXCEPT ![r] =
          Some(PowerSwitchPro(ctorCalls + 1, local[r][1].host[1], local[r][1].username,
                              local[r][1].password[1], local[r][1].use_https))]
    /\ pc' = [pc EXCEPT ![r] = "assign"]
    /\ UNCHANGED <<transport, env, _device, power, autoping, locked, serving, last>>

\* the store to the global `_device`
Assign(r) ==
    /\ pc[r] = "assign"
    /\ _device' = local[r]
    /\ pc' = [pc EXCEPT ![r] = "return"]
    /\ UNCHANGED <<transport, env, ctorCalls, power, autoping, locked, serving, last, local>>

\* return _device
Return(r) ==
    /\ pc[r] = "return"
    /\ local' = [local EXCEPT ![r] = _device]
    /\ pc' = [pc EXCEPT ![r] = "idle"]
    /\ UNCHANGED <<transport, env, _device, ctorCalls, power, autoping, locked, serving, last>>

RequestStep ==
    \E r \in Requests :
        Call(r) \/ Test(r) \/ ReadEnv(r) \/ Validate(r) \/ Construct(r) \/ Assign(r)
            \/ Return(r)

InitRace ==
    /\ InitProcess
    /\ transport = "http"
    /\ env \in {FixtureEnv, [n \in {"POWER_SWITCH_HOST"} |-> "10.0.0.7"]}
    /\ power = [o \in Outlets |-> FALSE]
    /\ locked = {}

NextRace == RequestStep

SpecRace == InitRace /\ [][NextRace]_vars

----------------------------------------------------------------------------
(* Claims about the accessor *)

HostMissing == ~Truthy(getenv(env, "POWER_SWITCH_HOST"))
PasswordMissing == ~Truthy(getenv(env, "POWER_SWITCH_PASSWORD"))

\* C1: sequential get_device calls with host and password set all return the
\* same handle instance, and the constructor is invoked exactly once, by the
\* first of them: a call that finds no handle constructs one, a call that
\* finds a handle returns that very handle and constructs nothing.
C1_SingletonSequential ==
    /\ ctorCalls = (IF _device = None THEN 0 ELSE 1)
    /\ (last.op = "get_device" /\ ~HostMissing /\ ~PasswordMissing) =>
          /\ last.out = "return"
          /\ last.result.handle = _device
          /\ _device # None
          /\ _device[1].inst = 1
          /\ last.pre = None => last.ctor = 1
          /\ last.pre # None => (last.ctor = 0 /\ last.result.handle = last.pre)

\* a second call, made with both values set, that found the handle cached
C1_Witness ==
    /\ last.op = "get_device"
    /\ ~HostMissing /\ ~PasswordMissing
    /\ last.pre # None
    /\ last.out = "return"
    /\ ctorCalls = 1

\* C2: with no handle cached and host or password absent or empty, get_device
\* raises ValueError, the constructor is not invoked, no device call is made
\* and the cached handle stays unset.
C2_MissingCredentialRaises ==
    (last.op = "get_device" /\ last.pre = None /\ (HostMissing \/ PasswordMissing)) =>
        /\ last.out = "raise"
        /\ last.result.raised = ConfigError
        /\ last.result.raised.type = "ValueError"
        /\ last.ctor = 0
        /\ ctorCalls = 0
        /\ last.calls = <<>>
        /\ _device = None

\* the call was made with the host set and the password set to ""
C2_Witness ==
    /\ last.op = "get_device"
    /\ last.pre = None
    /\ ~HostMissing
    /\ getenv(env, "POWER_SWITCH_PASSWORD") = Some("")
    /\ last.out = "raise"

\* C3: at most one connection handle is ever constructed per process, for any
\* interleaving of concurrent get_device calls.
C3_AtMostOneConstruction == ctorCalls <= 1

\* C4: once a handle is cached, get_device returns it whatever the environment
\* holds by then: it neither raises nor constructs again.
C4_CachedUnconditionally ==
    (last.op = "get_device" /\ last.pre # None) =>
        /\ last.out = "return"
        /\ last.result.handle = last.pre
        /\ last.ctor = 0
        /\ _device = last.pre

\* a call that found the handle cached after the host was removed and the
\* password, username and flag no longer match the ones it was built from
C4_Witness ==
    /\ last.op = "get_device"
    /\ last.pre # None
    /\ "POWER_SWITCH_HOST" \notin DOMAIN env
    /\ getenv(env, "POWER_SWITCH_PASSWORD") = Some("")
    /\ getenv(env, "POWER_SWITCH_USERNAME") # Some(last.pre[1].username)
    /\ last.pre[1].use_https # (lower(getenv_default(env, "POWER_SWITCH_USE_HTTPS", "false")) = "true")
    /\ last.out = "return"

----------------------------------------------------------------------------
(* Claims about the tools *)

IsTool == last.op \in ToolNames \cup UnknownNames

\* the HTTP tools that return a mapping
DictTools == {"get_outlet_info", "get_power_metrics", "get_device_info", "autoping_get_entry"}

ReturnsDict == transport = "http" /\ last.op \in DictTools

\* a bulk request with an explicit list of outlets
BulkExplicit ==
    /\ last.op = "bulk_outlet_operation"
    /\ {"action", "outlet_ids"} \subseteq DOMAIN last.args

\* a bulk request with the list omitted
BulkOmitted ==
    /\ last.op = "bulk_outlet_operation"
    /\ "action" \in DOMAIN last.args
    /\ "outlet_ids" \notin DOMAIN last.args

\* the text "Performed '<action>' on outlets: [a, b, ...]" for the list l,
\* spelled out piece by piece
IsPerformedText(t, action, l) ==
    /\ Len(t) = 5 + (IF l = <<>> THEN 0 ELSE 2 * Len(l) - 1)
    /\ t[1] = "Performed '" /\ t[2] = action /\ t[3] = "' on outlets: "
    /\ t[4] = "[" /\ t[Len(t)] = "]"
    /\ \A k \in 1..Len(l) : t[3 + 2 * k] = ToString(l[k] + 1)
    /\ \A k \in 1..(Len(l) - 1) : t[4 + 2 * k] = ", "

\* C5: for an action of {on, off, cycle} and an explicit list, the action's
\* method is called once per list element, in list order, and nothing else is
\* called; when no call fails the result is "Performed '<action>' on outlets:
\* L" with L the list's indices each plus one, in the same order.
C5_BulkExplicitInOrder ==
    (BulkExplicit /\ last.args.action \in Actions /\ _device # None) =>
        LET l == last.args.outlet_ids
        IN  /\ Len(last.calls) <= Len(l)
            /\ \A k \in 1..Len(last.calls) :
                  last.calls[k] = [m |-> last.args.action, outlet |-> l[k]]
            /\ last.exc = None =>
                  /\ Len(last.calls) = Len(l)
                  /\ last.out = "return"
                  /\ "text" \in DOMAIN last.result
                  /\ IsPerformedText(last.result.text, last.args.action, l)

\* "off" on a list of three that names one outlet twice, nothing failing
C5_Witness ==
    /\ BulkExplicit
    /\ last.args.action = "off"
    /\ Len(last.args.outlet_ids) = 3
    /\ last.args.outlet_ids[1] = last.args.outlet_ids[3]
    /\ last.args.outlet_ids[1] # last.args.outlet_ids[2]
    /\ last.exc = None
    /\ Len(last.calls) = 3

\* C6: with outlet_ids omitted the device's bulk_operation is called exactly
\* once, with locked=False and the given action, and no outlet is indexed or
\* called.
C6_BulkOmittedDelegates ==
    (BulkOmitted /\ _device # None) =>
        last.calls = <<[m |-> "bulk_operation", locked |-> FALSE,
                        action |-> last.args.action]>>

\* "off" with the list omitted, on a device with an outlet that was on
C6_Witness ==
    /\ BulkOmitted
    /\ last.args.action = "off"
    /\ last.exc = None
    /\ \E o \in Outlets : last.prePower[o] /\ ~power[o]
    /\ last.out = "return"

\* the k-th outlet call of an explicit bulk request raised
BulkFailedAt(k) ==
    /\ BulkExplicit
    /\ last.args.action \in Actions
    /\ last.exc # None
    /\ last.exc[1].type \in FaultKinds
    /\ Len(last.calls) = k

\* C7: when the outlet call for the k-th list element fails, the elements
\* before k have had the action applied and keep it (no rollback, no further
\* call), the call for k is the last one issued and no call is made for the
\* elements after it, and the result is an error result, not the 'Performed'
\* message.
C7_BulkPartialFailure ==
    \A k \in 1..MaxLen :
        BulkFailedAt(k) =>
            LET l == last.args.outlet_ids
                done == {l[j] : j \in 1..(k - 1)}
            IN  /\ k <= Len(l)
                /\ \A j \in 1..k : last.calls[j] = [m |-> last.args.action, outlet |-> l[j]]
                /\ \A o \in Outlets :
                      power[o] = IF o \in done THEN last.args.action # "off"
                                 ELSE last.prePower[o]
                /\ last.out = "return"
                /\ "text" \in DOMAIN last.result
                /\ last.result.text[1] \in {"Error: ", "Unexpected error: "}
                /\ last.result.text[1] # "Performed '"

\* "on" for three different outlets that were all off, the second call failing:
\* the first is on, the other two are still off
C7_Witness ==
    /\ BulkFailedAt(2)
    /\ last.args.action = "on"
    /\ Len(last.args.outlet_ids) = 3
    /\ Cardinality({last.args.outlet_ids[j] : j \in 1..3}) = 3
    /\ \A o \in Outlets : ~last.prePower[o]
    /\ power[last.args.outlet_ids[1]]
    /\ ~power[last.args.outlet_ids[2]]
    /\ ~power[last.args.outlet_ids[3]]

\* C8: a PowerSwitchError raised by a device call of any tool of either
\* transport is not propagated: the tool returns text beginning "Error:", or,
\* for the HTTP tools that return a mapping, a mapping with the key "error".
C8_DeviceErrorReported ==
    (IsTool /\ last.exc # None /\ last.exc[1].type = "PowerSwitchError") =>
        /\ last.out = "return"
        /\ IF ReturnsDict
           THEN /\ "mapping" \in DOMAIN last.result
                /\ "error" \in DOMAIN last.result.mapping
           ELSE /\ "text" \in DOMAIN last.result
                /\ last.result.text[1] = "Error: "

\* the third device call of the HTTP get_outlet_info raised PowerSwitchError
C8_Witness ==
    /\ transport = "http"
    /\ last.op = "get_outlet_info"
    /\ Len(last.calls) = 3
    /\ last.exc # None
    /\ last.exc[1].type = "PowerSwitchError"

\* an HTTP tool called without one of its required arguments
UnboundHttpCall ==
    /\ transport = "http"
    /\ IsTool
    /\ \/ last.op \in {"outlet_on", "outlet_off", "outlet_cycle", "get_outlet_state",
                       "get_outlet_info"} /\ "outlet_id" \notin DOMAIN last.args
       \/ last.op = "set_outlet_name" /\ ~({"outlet_id", "name"} \subseteq DOMAIN last.args)
       \/ last.op = "bulk_outlet_operation" /\ "action" \notin DOMAIN last.args
       \/ last.op = "autoping_add_entry" /\ ~({"host", "outlet_id"} \subseteq DOMAIN last.args)
       \/ last.op \in {"autoping_get_entry", "autoping_update_entry",
                       "autoping_delete_entry", "autoping_enable_entry",
                       "autoping_disable_entry"} /\ "entry_id" \notin DOMAIN last.args

\* the result reports an unexpected failure
IsUnexpectedResult ==
    IF ReturnsDict
    THEN /\ "mapping" \in DOMAIN last.result
         /\ "error" \in DOMAIN last.result.mapping
         /\ last.result.mapping.error[1] = "Unexpected error: "
    ELSE /\ "text" \in DOMAIN last.result
         /\ last.result.text[1] = "Unexpected error: "

\* C9 as stated: no tool invocation of either transport ever raises to the
\* transport, a missing required argument included.
C9_NeverRaises == IsTool => last.out = "return"

\* C9, amended: a failure other than a device-layer error that is raised
\* inside a tool's try block (in the stdio handler that includes the lookup of
\* a missing required argument) is caught and returned as an "Unexpected
\* error: ..." text or a mapping with the key "error"; the only invocation that
\* raises is an HTTP tool called without a required argument, which fails
\* while its arguments are bound, before any of its code runs; either way the
\* process goes on serving and a handle cached before stays the cached one.
C9_UnexpectedFailureReported ==
    /\ (IsTool /\ last.exc # None /\ last.exc[1].type # "PowerSwitchError") =>
          (last.out = "return" /\ IsUnexpectedResult)
    /\ (IsTool /\ last.out = "raise") =>
          /\ UnboundHttpCall
          /\ last.result.raised.type = "TypeError"
          /\ last.calls = <<>>
          /\ last.ctor = 0
          /\ _device = last.pre
    /\ IsTool => serving
    /\ (IsTool /\ last.pre # None) => _device = last.pre

\* the stdio handler was asked for set_outlet_name without the name, with a
\* handle cached: the KeyError came back as a result
C9_Witness ==
    /\ transport = "stdio"
    /\ last.op = "set_outlet_name"
    /\ DOMAIN last.args = {"outlet_id"}
    /\ last.pre # None
    /\ last.exc # None
    /\ last.exc[1].type = "KeyError"
    /\ last.out = "return"
    /\ serving

\* C10 as stated: a missing host or password is raised before the transport
\* begins serving, and no tool invocation reports it as an error result.
C10_FailsBeforeServing ==
    /\ serving => (~HostMissing /\ ~PasswordMissing)
    /\ ~(IsTool /\ last.out = "return" /\ last.exc = Some(ConfigError))

\* C10, amended: a missing host or password does not keep either transport
\* from starting to serve; get_device is first called inside a tool's try
\* block, so with no handle cached every tool invocation that gets as far as
\* its body catches the ValueError and returns it as an "Unexpected error:
\* POWER_SWITCH_HOST and POWER_SWITCH_PASSWORD ..." result, makes no device
\* call, constructs nothing and leaves the handle unset.
C10_ReportedByEachInvocation ==
    /\ last.op = "main" => (last.out = "return" /\ serving)
    /\ (IsTool /\ last.pre = None /\ (HostMissing \/ PasswordMissing) /\ ~UnboundHttpCall) =>
          /\ last.out = "return"
          /\ last.exc = Some(ConfigError)
          /\ IsUnexpectedResult
          /\ IF ReturnsDict THEN last.result.mapping.error[2] = ConfigError.msg
                            ELSE last.result.text[2] = ConfigError.msg
          /\ last.calls = <<>>
          /\ last.ctor = 0
          /\ _device = None

\* a process serving with no host set answered get_power_metrics over HTTP
\* with the configuration error as a mapping
C10_Witness ==
    /\ serving
    /\ "POWER_SWITCH_HOST" \notin DOMAIN env
    /\ transport = "http"
    /\ last.op = "get_power_metrics"
    /\ last.out = "return"
    /\ "mapping" \in DOMAIN last.result
    /\ last.result.mapping.error = <<"Unexpected error: ", ConfigError.msg>>

----------------------------------------------------------------------------
(* Claims about the stdio handler's dispatch *)

\* the stdio handler was asked for a name outside the catalog
UnknownCall == transport = "stdio" /\ last.op \in UnknownNames

\* C11 as stated: for every name outside the catalog and any arguments the
\* stdio handler returns the text "Unknown tool: <name>".
C11_UnknownToolText ==
    UnknownCall =>
        /\ last.out = "return"
        /\ last.result = Text(<<"Unknown tool: ", last.op>>)
        /\ last.calls = <<>>

\* C11, amended: for a name outside the catalog the stdio handler never
\* raises and makes no device call; it returns "Unknown tool: <name>" when a
\* handle is cached or host and password are set (the handle is then
\* constructed first), and "Unexpected error: POWER_SWITCH_HOST and
\* POWER_SWITCH_PASSWORD environment variables must be set" otherwise,
\* because get_device runs before the name is looked at.
C11_UnknownToolResult ==
    UnknownCall =>
        /\ last.out = "return"
        /\ last.calls = <<>>
        /\ power = last.prePower
        /\ IF last.pre # None \/ (~HostMissing /\ ~PasswordMissing)
           THEN /\ last.result = Text(<<"Unknown tool: ", last.op>>)
                /\ last.exc = None
                /\ _device # None
                /\ last.ctor = (IF last.pre = None THEN 1 ELSE 0)
           ELSE /\ last.result = Text(<<"Unexpected error: ", ConfigError.msg>>)
                /\ _device = None
                /\ last.ctor = 0

\* an unknown name asked with arguments while a handle was cached
C11_Witness ==
    /\ UnknownCall
    /\ last.op = "OUTLET_ON"
    /\ last.args = [outlet_id |-> 0]
    /\ last.pre # None
    /\ last.result = Text(<<"Unknown tool: ", "OUTLET_ON">>)

----------------------------------------------------------------------------
(* Claims about the outlet operations *)

\* the invocation l was `op` on outlet i and returned without an exception
OutletOk(l, op, i) == l.op = op /\ l.args = [outlet_id |-> i] /\ l.ok

LastOk(op, i) == OutletOk(Digest(last), op, i)

\* the text get_outlet_state returns for outlet i in state b
StateText(i, b) == Text(<<"Outlet ", ToString(i + 1), " is ", OnOff(b)>>)

\* C12: a successful outlet_on(i) immediately followed by get_outlet_state(i)
\* reports ON, a successful outlet_off(i) followed by it reports OFF; the
\* same on/off call repeated leaves the state what it was after the first,
\* and an on/off call leaves every other outlet as it was.
C12_OnOffThenState ==
    \A i \in Outlets :
        /\ (OutletOk(last.prev, "outlet_on", i) /\ LastOk("get_outlet_state", i)) =>
              last.result = StateText(i, TRUE)
        /\ (OutletOk(last.prev, "outlet_off", i) /\ LastOk("get_outlet_state", i)) =>
              last.result = StateText(i, FALSE)
        /\ LastOk("outlet_on", i) => power[i]
        /\ LastOk("outlet_off", i) => ~power[i]
        /\ \A op \in {"outlet_on", "outlet_off"} :
              /\ (OutletOk(last.prev, op, i) /\ LastOk(op, i)) => power = last.prePower
              /\ LastOk(op, i) => \A j \in Outlets \ {i} : power[j] = last.prePower[j]
        /\ LastOk("get_outlet_state", i) => power = last.prePower

\* outlet_off on the last outlet, which was on while another was on too,
\* was followed by get_outlet_state of it: OFF, the other still on
C12_Witness ==
    /\ OutletOk(last.prev, "outlet_off", MaxOutlet)
    /\ LastOk("get_outlet_state", MaxOutlet)
    /\ last.result = StateText(MaxOutlet, FALSE)
    /\ power[0]

----------------------------------------------------------------------------
(* Claims about the watchdog entries *)

\* how a transport shows the entry get_entry returned
ShownEntry(entry) ==
    IF transport = "http" THEN Mapping(entry) ELSE Text(JsonCreated(entry))

\* the keyword arguments update_entry is to receive for the arguments a
ForwardedUpdate(a) ==
    [entry_id |-> a.entry_id,
     host |-> IF "host" \in DOMAIN a THEN Some(a.host) ELSE None,
     outlet |-> IF "outlet_id" \in DOMAIN a THEN Some(a.outlet_id) ELSE None,
     enabled |-> IF "enabled" \in DOMAIN a THEN Some(a.enabled) ELSE None,
     interval |-> IF "interval" \in DOMAIN a THEN Some(a.interval) ELSE None,
     retries |-> IF "retries" \in DOMAIN a THEN Some(a.retries) ELSE None]

\* the entry `old` with exactly the fields a supplies replaced
OnlySupplied(old, a) ==
    [host |-> IF "host" \in DOMAIN a THEN a.host ELSE old.host,
     outlet |-> IF "outlet_id" \in DOMAIN a THEN a.outlet_id ELSE old.outlet,
     enabled |-> IF "enabled" \in DOMAIN a THEN a.enabled ELSE old.enabled,
     interval |-> IF "interval" \in DOMAIN a THEN a.interval ELSE old.interval,
     retries |-> IF "retries" \in DOMAIN a THEN a.retries ELSE old.retries]

\* C13: autoping_update_entry with a subset of the optional fields forwards
\* each supplied field as given (False included) and each unsupplied one as
\* None, so that on the device only the supplied fields of the addressed
\* entry change and no other entry does; autoping_get_entry then shows the
\* entry as the device holds it.
C13_UpdateChangesOnlySupplied ==
    [][/\ (last'.op = "autoping_update_entry" /\ last'.out = "return" /\ last'.exc = None) =>
            LET a == last'.args
            IN  /\ last'.calls = <<[m |-> "update_entry", kwargs |-> ForwardedUpdate(a)]>>
                /\ Len(autoping'.table) = Len(autoping.table)
                /\ \A k \in 1..Len(autoping.table) :
                      autoping'.table[k] =
                          IF k = a.entry_id + 1 THEN OnlySupplied(autoping.table[k], a)
                          ELSE autoping.table[k]
       /\ (last'.op = "autoping_get_entry" /\ last'.out = "return" /\ last'.exc = None) =>
            /\ autoping' = autoping
            /\ last'.result = ShownEntry(autoping.table[last'.args.entry_id + 1])
      ]_vars

\* the second of two entries had its host and interval changed, then only
\* its enabled flag set to false, and was read back: host and interval are
\* still the changed ones
C13_Witness ==
    /\ last.prev = [op |-> "autoping_update_entry",
                    args |-> [entry_id |-> 1, enabled |-> FALSE], ok |-> TRUE]
    /\ last.op = "autoping_get_entry"
    /\ last.args = [entry_id |-> 1]
    /\ last.result = ShownEntry([host |-> "10.0.0.10", outlet |-> 1, enabled |-> FALSE,
                                 interval |-> 30, retries |-> 3])

\* the entry autoping_add_entry is to create for the arguments a
CreatedFor(a) ==
    [host |-> a.host, outlet |-> a.outlet_id,
     enabled |-> IF "enabled" \in DOMAIN a THEN a.enabled ELSE TRUE,
     interval |-> IF "interval" \in DOMAIN a THEN a.interval ELSE 60,
     retries |-> IF "retries" \in DOMAIN a THEN a.retries ELSE 3]

\* the id of the entry the device added last
NewestId == Len(autoping.table) - 1

\* C14: after a successful autoping_add_entry, autoping_get_entry with the id
\* of the entry the device created yields the host, outlet, interval and
\* retries supplied at creation: add_entry received them unchanged, the
\* outlet zero-based as `outlet`.
C14_AddThenGet ==
    /\ (last.op = "autoping_add_entry" /\ Digest(last).ok) =>
          /\ last.calls = <<[m |-> "add_entry", kwargs |-> CreatedFor(last.args)]>>
          /\ last.calls[1].kwargs.outlet = last.args.outlet_id
          /\ autoping.kept => autoping.table[NewestId + 1] = CreatedFor(last.args)
    /\ (/\ last.prev.op = "autoping_add_entry" /\ last.prev.ok
        /\ last.op = "autoping_get_entry" /\ last.args = [entry_id |-> NewestId]) =>
          /\ Digest(last).ok
          /\ last.result = ShownEntry(CreatedFor(last.prev.args))

\* a second entry was added with every option given, and read back by its id
C14_Witness ==
    /\ last.prev.op = "autoping_add_entry"
    /\ last.prev.ok
    /\ DOMAIN last.prev.args = {"host", "outlet_id", "enabled", "interval", "retries"}
    /\ last.op = "autoping_get_entry"
    /\ last.args = [entry_id |-> 1]
    /\ NewestId = 1
    /\ last.result = ShownEntry([host |-> "10.0.0.9", outlet |-> 0, enabled |-> FALSE,
                                 interval |-> 30, retries |-> 5])

\* an autoping_add_entry request that reached the device
AddCalled ==
    /\ last.op = "autoping_add_entry"
    /\ {"host", "outlet_id"} \subseteq DOMAIN last.args
    /\ last.calls # <<>>

\* C15: autoping_add_entry with only host and outlet index asks the device for
\* an entry with enabled=true, interval=60 and retries=3; an optional argument
\* that is supplied replaces its own default and no other.
C15_AddDefaults ==
    AddCalled =>
        LET a == last.args
            kw == last.calls[1].kwargs
        IN  /\ Len(last.calls) = 1
            /\ last.calls[1].m = "add_entry"
            /\ kw.host = a.host /\ kw.outlet = a.outlet_id
            /\ kw.enabled = (IF "enabled" \in DOMAIN a THEN a.enabled ELSE TRUE)
            /\ kw.interval = (IF "interval" \in DOMAIN a THEN a.interval ELSE 60)
            /\ kw.retries = (IF "retries" \in DOMAIN a THEN a.retries ELSE 3)
            /\ DOMAIN a = {"host", "outlet_id"} =>
                  (kw.enabled /\ kw.interval = 60 /\ kw.retries = 3)

\* the stdio handler was given host, outlet and retries=5 only: the interval
\* and the enabled flag are the defaults
C15_Witness ==
    /\ AddCalled
    /\ transport = "stdio"
    /\ last.args = [host |-> "10.0.0.9", outlet_id |-> 0, retries |-> 5]
    /\ last.exc = None
    /\ last.calls[1].kwargs =
          [host |-> "10.0.0.9", outlet |-> 0, enabled |-> TRUE, interval |-> 60,
           retries |-> 5]

----------------------------------------------------------------------------
(* Claims about the device calls of an invocation *)

\* an invocation of a catalog operation other than the bulk one
SingleOp == last.op \in ToolNames \ {"bulk_outlet_operation"}

\* C16 as stated: every operation other than bulk_outlet_operation that
\* completes has made exactly one call on the device.
C16_ExactlyOneCall ==
    (SingleOp /\ last.out = "return" /\ last.exc = None) => Len(last.calls) = 1

\* the device calls an operation makes when nothing fails
CallCount(op) ==
    CASE op = "get_power_metrics" -> 4
      [] op = "get_outlet_info" -> 3
      [] OTHER -> 1

\* C16, amended: no operation retries. An operation other than
\* bulk_outlet_operation that completes has made a fixed number of device
\* calls, none of them twice: one, except get_outlet_info (three reads: name,
\* state, locked) and get_power_metrics (four reads: voltage, current, power,
\* energy); when a device call fails it is the last call of the invocation;
\* an invocation that fails before it reaches the device (credentials or a
\* required argument missing) makes none.
C16_NoRetry ==
    /\ SingleOp =>
          /\ (last.out = "return" /\ last.exc = None) =>
                Len(last.calls) = CallCount(last.op)
          /\ Len(last.calls) <= CallCount(last.op)
          /\ \A i, j \in 1..Len(last.calls) : last.calls[i] = last.calls[j] => i = j
          /\ (last.exc = Some(ConfigError)
                \/ (last.exc # None /\ last.exc[1].type = "KeyError")) =>
                last.calls = <<>>
    /\ IsTool =>
          /\ last.failed # 0 => (last.failed = Len(last.calls) /\ last.exc # None)
          /\ last.out = "raise" => last.calls = <<>>

\* get_power_metrics over HTTP: the third of its four reads failed and the
\* fourth was not made
C16_Witness ==
    /\ transport = "http"
    /\ last.op = "get_power_metrics"
    /\ last.failed = 3
    /\ Len(last.calls) = 3
    /\ last.calls[3] = [m |-> "get_power"]

----------------------------------------------------------------------------
(* Claims about the two transports *)

\* the JSON text of the mapping an HTTP tool returned
JsonOf(name, m) ==
    CASE name = "get_outlet_info" -> JsonOutletInfo(m.id, m.name, m.state, m.locked)
      [] name = "get_power_metrics" /\ m = [voltage_v |-> Voltage, current_a |-> Current,
                                            power_w |-> Power, energy_kwh |-> Energy] ->
            JsonMetrics
      [] name = "get_device_info" /\ m = DeviceInfo -> JsonDeviceInfo
      [] name = "autoping_get_entry" /\ m = RawEntry -> JsonRawEntry
      [] OTHER -> <<>>

\* the stdio result rs and the HTTP result rh have the same content
SameContent(name, rs, rh) ==
    IF "mapping" \in DOMAIN rh THEN rs = Text(JsonOf(name, rh.mapping)) ELSE rs = rh

Compared == last.out = "compared"

\* C17: for every catalog operation, every argument value and every device
\* state, the stdio handler and the HTTP callable of the same name issue the
\* same device calls and return the same content.
C17_TransportsIdentical ==
    Compared =>
        /\ last.calls[1] = last.calls[2]
        /\ SameContent(last.op, last.result.stdio, last.result.http)

----------------------------------------------------------------------------
(* scripts/setup_ecowitt_autoping.py: the interactive setup script, one    *)
(* step per blocking stage of main(): the prompts, the connection, the     *)
(* listing, the confirmation, the creation                                 *)

\* the environments the script is started in: the fixture's, one with only
\* host and password, and an empty one (the script then prompts)
SetupEnvs ==
    {FixtureEnv,
     [n \in {"POWER_SWITCH_HOST", "POWER_SWITCH_PASSWORD"} |->
         IF n = "POWER_SWITCH_HOST" THEN "10.0.0.7" ELSE "test-password"],
     [n \in {} |-> ""]}

\* what the operator types at the prompts
OutletAnswers == {"0", "1", "x"}
IntervalAnswers == {"", " 30 "}
RetriesAnswers == {"", "5"}
ConfirmAnswers == {"y", "Y", "n", "", " y"}

\* a watchdog entry the device already holds when the script starts
ExistingEntry ==
    [host |-> "192.168.1.1", outlet |-> 0, enabled |-> TRUE,
     interval |-> 60, retries |-> 3]

\* main()'s locals before anything is bound; calls, status and exc record
\* the device calls issued, the process's exit status and the exception
\* that ended it
NoLocals ==
    [host |-> None, username |-> None, password |-> None, use_https |-> None,
     ecowitt_ip |-> None, outlet_id |-> None, interval |-> None, retries |-> None,
     connected |-> None, entries |-> None, answer |-> None, confirm |-> None,
     result |-> None, before |-> None, calls |-> <<>>, status |-> None, exc |-> None]

\* sys.exit(n), or main() returning (n = 0)
Exit(l, n) == [l EXCEPT !.status = Some(n)]

\* an exception nobody catches ends the process with a traceback and status 1
Uncaught(l, e) == [l EXCEPT !.status = Some(1), !.exc = Some(e)]

\* the run state of the script's next device call: the calls issued so far,
\* and a device that raises on this call or not
SetupRun(raises, ok) ==
    [Run(Script(IF raises THEN Len(local.calls) + 1 ELSE 0, "ConnectionError", ok, <<>>))
        EXCEPT !.calls = local.calls]

\* mutant: the answer is not looked at
declined_never(confirm) == FALSE

\* if confirm != "y"
declined(confirm) == confirm # "y"

\* lines 18-37: credentials from the environment or the prompts, then the
\* watchdog parameters
Collect ==
    /\ transport = "script" /\ pc = "collect"
    /\ \E host_in \in {"10.0.0.7"} : \E password_in \in {"test-password"} :
       \E ecowitt_in \in {"192.168.1.50"} : \E outlet_in \in OutletAnswers :
       \E interval_in \in IntervalAnswers : \E retries_in \in RetriesAnswers :
          LET host == getenv(env, "POWER_SWITCH_HOST")
              username == getenv_default(env, "POWER_SWITCH_USERNAME", "admin")
              password == getenv(env, "POWER_SWITCH_PASSWORD")
              use_https ==
                  lower(getenv_default(env, "POWER_SWITCH_USE_HTTPS", "false")) = "true"
              outlet_id == int(outlet_in)
              interval_input == strip(interval_in)
              interval == IF interval_input # "" THEN int(interval_input) ELSE Some(60)
              retries_input == strip(retries_in)
              retries == IF retries_input # "" THEN int(retries_input) ELSE Some(3)
              l == [local EXCEPT
                      !.host = Some(IF Truthy(host) THEN host[1] ELSE host_in),
                      !.username = Some(username),
                      !.password = Some(IF Truthy(password) THEN password[1]
                                                            ELSE password_in),
                      !.use_https = Some(use_https),
                      !.ecowitt_ip = Some(ecowitt_in),
                      !.before = Some(autoping.table)]
          IN  IF outlet_id = None \/ interval = None \/ retries = None
              THEN /\ local' = Uncaught(l, Exc("ValueError", "invalid literal for int()"))
                   /\ pc' = "exit"
              ELSE /\ local' = [l EXCEPT !.outlet_id = outlet_id,
                                         !.interval = interval,
                                         !.retries = retries]
                   /\ pc' = "connect"
    /\ UNCHANGED <<transport, env, _device, ctorCalls, power, autoping, locked, serving, last>>

\* mutant: the result of test_connection is not looked at
ConnectUnchecked ==
    /\ transport = "script" /\ pc = "connect"
    /\ ctorCalls' = ctorCalls + 1
    /\ \E raises \in BOOLEAN : \E ok \in BOOLEAN :
          LET s == DeviceCall(SetupRun(raises, ok), [m |-> "test_connection"])
              l == [local EXCEPT !.calls = s.calls]
          IN  IF s.exc # None
              THEN local' = Uncaught(l, s.exc[1]) /\ pc' = "exit"
              ELSE local' = [l EXCEPT !.connected = Some(ok)] /\ pc' = "list"
    /\ UNCHANGED <<transport, env, _device, power, autoping, locked, serving, last>>

\* lines 39-52: the handle is constructed and the connection verified
Connect ==
    /\ transport = "script" /\ pc = "connect"
    /\ ctorCalls' = ctorCalls + 1
    /\ \E raises \in BOOLEAN : \E ok \in BOOLEAN :
          LET s == DeviceCall(SetupRun(raises, ok), [m |-> "test_connection"])
              l == [local EXCEPT !.calls = s.calls]
          IN  IF s.exc # None
              THEN local' = Uncaught(l, s.exc[1]) /\ pc' = "exit"
              ELSE IF ~ok
              THEN local' = Exit([l EXCEPT !.connected = Some(FALSE)], 1) /\ pc' = "exit"
              ELSE local' = [l EXCEPT !.connected = Some(TRUE)] /\ pc' = "list"
    /\ UNCHANGED <<transport, env, _device, power, autoping, locked, serving, last>>

\* lines 54-76: the existing entries are read and printed
ListExisting ==
    /\ transport = "script" /\ pc = "list"
    /\ \E raises \in BOOLEAN :
          LET s == DeviceCall(SetupRun(raises, TRUE), [m |-> "list_entries"])
              l == [local EXCEPT !.calls = s.calls]
          IN  IF s.exc # None
              THEN local' = Uncaught(l, s.exc[1]) /\ pc' = "exit"
              ELSE local' = [l EXCEPT !.entries = Some(ListedEntries(s))]
                   /\ pc' = "confirm"
    /\ UNCHANGED <<transport, env, _device, ctorCalls, power, autoping, locked, serving, last>>

\* lines 78-81: the operator's answer, lower-cased, decides
Confirm ==
    /\ transport = "script" /\ pc = "confirm"
    /\ \E answer \in ConfirmAnswers :
          LET confirm == lower(answer)
              l == [local EXCEPT !.answer = Some(answer), !.confirm = Some(confirm)]
          IN  IF declined(confirm)
              THEN local' = Exit(l, 0) /\ pc' = "exit"
              ELSE local' = l /\ pc' = "add"
    /\ UNCHANGED <<transport, env, _device, ctorCalls, power, autoping, locked, serving, last>>

\* lines 83-96: the entry is created and main() returns
AddEntry ==
    /\ transport = "script" /\ pc = "add"
    /\ \E raises \in BOOLEAN :
          LET kwargs == [host |-> local.ecowitt_ip[1], outlet |-> local.outlet_id[1],
                         enabled |-> TRUE, interval |-> local.interval[1],
                         retries |-> local.retries[1]]
              s == DeviceCall(SetupRun(raises, TRUE), [m |-> "add_entry", kwargs |-> kwargs])
              l == [local EXCEPT !.calls = s.calls]
          IN  /\ autoping' = s.autoping
              /\ IF s.exc # None
                 THEN local' = Uncaught(l, s.exc[1])
                 ELSE local' = Exit([l EXCEPT !.result = Some(kwargs)], 0)
              /\ pc' = "exit"
    /\ UNCHANGED <<transport, env, _device, ctorCalls, power, locked, serving, last>>

InitSetup ==
    /\ transport = "script"
    /\ env \in SetupEnvs
    /\ _device = None
    /\ ctorCalls = 0
    /\ power = [o \in Outlets |-> FALSE]
    /\ autoping \in {Kept(<<>>), Kept(<<ExistingEntry>>)}
    /\ locked = {}
    /\ serving = FALSE
    /\ last = Idle
    /\ pc = "collect"
    /\ local = NoLocals

NextSetup == Collect \/ Connect \/ ListExisting \/ Confirm \/ AddEntry

SpecSetup == InitSetup /\ [][NextSetup]_vars

----------------------------------------------------------------------------
(* C18: the setup script on failed connectivity and on a declined prompt *)

\* add_entry is among the device calls the script has issued
AddInvoked == \E k \in 1..Len(local.calls) : local.calls[k].m = "add_entry"

\* the device's table is as the script found it
TableUntouched == local.before # None => autoping.table = local.before[1]

\* test_connection returned false, or raised
ConnectivityFailed ==
    \/ local.connected = Some(FALSE)
    \/ /\ local.exc # None
       /\ local.calls # <<>>
       /\ local.calls[Len(local.calls)].m = "test_connection"

\* the run ended without add_entry and without a change of the table, with
\* an exit status in `statuses`
EndedUnchanged(statuses) ==
    /\ pc = "exit"
    /\ ~AddInvoked
    /\ TableUntouched
    /\ local.status # None /\ local.status[1] \in statuses

\* C18 as stated: when connectivity verification fails, or the operator's
\* answer to the confirmation prompt is not "y", add_entry is never invoked;
\* the exit status is non-zero in the first case and zero in the second.
C18_NoAddUnlessAnswerIsY ==
    /\ ConnectivityFailed => EndedUnchanged({1})
    /\ (local.answer # None /\ local.answer[1] # "y") => EndedUnchanged({0})

\* C18: when connectivity verification fails, or the operator's answer to
\* the confirmation prompt, lower-cased, is not "y", add_entry is never
\* invoked and the device's table is unchanged; the exit status is non-zero
\* in the first case and zero in the second.
C18_NoAddUnlessConfirmed ==
    /\ ConnectivityFailed => EndedUnchanged({1})
    /\ (local.answer # None /\ lower(local.answer[1]) # "y") => EndedUnchanged({0})

\* a run that connected, listed the entries and was declined
C18_Witness ==
    /\ pc = "exit"
    /\ local.answer \in {Some("n"), Some(" y")}
    /\ local.status = Some(0)
    /\ Len(local.calls) = 2
    /\ local.calls[2].m = "list_entries"

----------------------------------------------------------------------------
(* http_server.py, module level: the HTTP transport's server settings *)

DEFAULT_PORT == 5000

\* values of the PORT variable
PortValues == {"8000", "9090", "80a"}

\* port = int(os.getenv("PORT", DEFAULT_PORT)): None where int() raises
module_port(e) == IF "PORT" \in DOMAIN e THEN int(e["PORT"]) ELSE Some(DEFAULT_PORT)

\* FastMCP("power-switch-pro", stateless_http=True, json_response=True,
\*         host="0.0.0.0", port=port): the settings of the instance
FastMCP(port) ==
    [settings |-> [host |-> "0.0.0.0", port |-> port,
                   stateless_http |-> TRUE, json_response |-> TRUE]]

\* a process imports the module in the current environment
ImportHttpServer ==
    /\ transport = "http" /\ last = Idle
    /\ LET port == module_port(env)
       IN  last' = IF port = None
                   THEN [Idle EXCEPT !.op = "import", !.out = "raise",
                                     !.exc = Some(Exc("ValueError",
                                                      "invalid literal for int()"))]
                   ELSE [Idle EXCEPT !.op = "import", !.out = "return",
                                     !.result = [mcp |-> FastMCP(port[1])]]
    /\ UNCHANGED <<transport, env, _device, ctorCalls, power, autoping, locked, serving, pc, local>>

\* os.environ["PORT"] = v
SetPort ==
    \E v \in PortValues :
        /\ env' = [n \in DOMAIN env \cup {"PORT"} |-> IF n = "PORT" THEN v ELSE env[n]]
        /\ env' # env
        /\ last' = Idle
        /\ UNCHANGED <<transport, _device, ctorCalls, power, autoping, locked, serving, pc, local>>

InitSettings == InitAccessor /\ transport = "http"

NextSettings == ImportHttpServer \/ SetPort \/ SetEnv \/ DelEnv

SpecSettings == InitSettings /\ [][NextSettings]_vars

----------------------------------------------------------------------------
(* C19: the bound host and port *)

\* C19: with PORT unset the module's server settings bind host 0.0.0.0 and
\* port 8000; with PORT set to an integer the bound port is that integer.
C19_BoundHostAndPort ==
    last.op = "import" =>
        IF "PORT" \notin DOMAIN env
        THEN /\ last.out = "return"
             /\ last.result.mcp.settings.host = "0.0.0.0"
             /\ last.result.mcp.settings.port = 8000
        ELSE int(env["PORT"]) # None =>
                /\ last.out = "return"
                /\ last.result.mcp.settings.host = "0.0.0.0"
                /\ last.result.mcp.settings.port = int(env["PORT"])[1]

----------------------------------------------------------------------------
(* C20: outlet numbering in text, in device calls and in structured fields *)

\* the invocation issued device calls, each of them on outlet i
ActsOn(i) ==
    /\ last.calls # <<>>
    /\ \A k \in 1..Len(last.calls) :
          "outlet" \in DOMAIN last.calls[k] /\ last.calls[k].outlet = i

\* the returned text begins "Outlet n"
Names(n) ==
    /\ "text" \in DOMAIN last.result
    /\ Len(last.result.text) >= 2
    /\ last.result.text[1] = "Outlet "
    /\ last.result.text[2] = ToString(n)

\* set_outlet_name(i, name) returned without any exception
RenameOk(i) ==
    /\ last.op = "set_outlet_name"
    /\ DOMAIN last.args = {"outlet_id", "name"}
    /\ last.args.outlet_id = i
    /\ Digest(last).ok

\* the id field of the outlet info returned: a mapping's field over HTTP,
\* the first member of the JSON text over stdio
InfoHasId(i) ==
    IF "mapping" \in DOMAIN last.result
    THEN last.result.mapping.id = i
    ELSE /\ Len(last.result.text) >= 2
         /\ last.result.text[1] = "{\n  \"id\": "
         /\ last.result.text[2] = ToString(i)

\* line k of the text, of lines of four pieces joined by "\n"
LineOf(text, k) == [j \in 1..4 |-> text[5 * k - 5 + j]]

\* C20: for every outlet index i, outlet_on, outlet_off, outlet_cycle,
\* get_outlet_state and set_outlet_name issue their device call on outlet i
\* and name "Outlet i+1" in the text they return; get_outlet_info reads
\* outlet i and returns id = i; line k of get_all_outlet_states is
\* "Outlet k: ON" or "Outlet k: OFF" according to the (k-1)-th state the
\* device returned, one line per state in the device's order.
C20_OneBasedTextZeroBasedCalls ==
    /\ \A i \in Outlets :
          /\ \A op \in {"outlet_on", "outlet_off", "outlet_cycle", "get_outlet_state"} :
                LastOk(op, i) => ActsOn(i) /\ Names(i + 1)
          /\ RenameOk(i) => ActsOn(i) /\ Names(i + 1)
          /\ LastOk("get_outlet_info", i) => ActsOn(i) /\ InfoHasId(i)
    /\ (last.op = "get_all_outlet_states" /\ Digest(last).ok) =>
          /\ last.calls = <<[m |-> "get_all_states"]>>
          /\ Len(last.result.text) = 5 * (MaxOutlet + 1) - 1
          /\ \A k \in 1..(MaxOutlet + 1) :
                /\ LineOf(last.result.text, k)
                      = <<"Outlet ", ToString(k), ": ", OnOff(last.prePower[k - 1])>>
                /\ k > 1 => last.result.text[5 * k - 5] = "\n"

\* set_outlet_name renamed the last outlet
C20_Witness ==
    /\ RenameOk(MaxOutlet)
    /\ last.calls = <<[m |-> "set_name", outlet |-> MaxOutlet, name |-> last.args.name]>>
    /\ Names(MaxOutlet + 1)

----------------------------------------------------------------------------
(* C21: what the handle is constructed from *)

\* the spellings of "true" among the flag values
TrueSpellings == {"true", "True", "TRUE"}

\* C21: the first successful get_device call constructs the handle from
\* exactly host, username, password and use_https, where host and password
\* are the environment's, username is the environment's or "admin" when
\* unset, and use_https is true exactly when the flag is set to a spelling
\* of "true" (false when unset or set to anything else).
C21_HandleFromEnvironment ==
    (last.op = "get_device" /\ last.pre = None /\ last.out = "return") =>
        /\ last.ctor = 1
        /\ LET h == last.result.handle[1]
           IN  /\ DOMAIN h = {"inst", "host", "username", "password", "use_https"}
               /\ h.host = env["POWER_SWITCH_HOST"]
               /\ h.password = env["POWER_SWITCH_PASSWORD"]
               /\ h.username = (IF "POWER_SWITCH_USERNAME" \in DOMAIN env
                                THEN env["POWER_SWITCH_USERNAME"] ELSE "admin")
               /\ h.use_https = (/\ "POWER_SWITCH_USE_HTTPS" \in DOMAIN env
                                 /\ env["POWER_SWITCH_USE_HTTPS"] \in TrueSpellings)

\* a first call with the username unset and the flag written "True"
C21_Witness ==
    /\ last.op = "get_device" /\ last.pre = None /\ last.out = "return"
    /\ "POWER_SWITCH_USERNAME" \notin DOMAIN env
    /\ getenv(env, "POWER_SWITCH_USE_HTTPS") = Some("True")
    /\ last.result.handle[1].username = "admin"
    /\ last.result.handle[1].use_https

----------------------------------------------------------------------------
(* bulk_outlet_operation for concurrent requests: each call on the device   *)
(* is a blocking request to it and a step of its own; nothing in the       *)
(* handler holds a lock across the loop. `last.calls` is the device's log  *)
(* of the calls it served, each with the request that made it.             *)

\* the explicit lists and the actions the racing requests name
RaceLists == {<<0, 1>>, <<1, 0>>}
RaceActions == {"on", "off"}

\* the request's locals
Frame(r) == local[r][1]

\* the request is inside the loop with an outlet still to come
InLoop(r) == pc[r] = "loop" /\ Frame(r).i <= Len(Frame(r).outlet_ids[1])

\* the calls of one step, as the device logs them
Logged(r, calls) == [k \in 1..Len(calls) |-> [r |-> r, call |-> calls[k]]]

\* a request enters bulk_outlet_operation: device = get_device()
BulkBegin(r) ==
    /\ transport = "http" /\ pc[r] = "idle"
    /\ \E action \in RaceActions : \E outlet_ids \in {Some(l) : l \in RaceLists} \cup {None} :
          LET s == get_device(Run(NoFault), env)
          IN  /\ s.exc = None
              /\ _device' = s.dev
              /\ ctorCalls' = s.ctor
              /\ local' = [local EXCEPT ![r] =
                    Some([action |-> action, outlet_ids |-> outlet_ids, i |-> 1])]
              /\ pc' = [pc EXCEPT ![r] = IF outlet_ids # None THEN "loop" ELSE "all"]
    /\ UNCHANGED <<transport, env, power, autoping, locked, serving, last>>

\* mutant: the loop waits while another request is part-way through its own
BulkStepExclusive(r) ==
    /\ InLoop(r)
    /\ \A q \in Requests \ {r} : ~(InLoop(q) /\ Frame(q).i > 1)
    /\ LET f == Frame(r)
           s == BulkLoop(Run(NoFault), f.action, <<f.outlet_ids[1][f.i]>>)
       IN  /\ power' = s.power
           /\ last' = [last EXCEPT !.calls = @ \o Logged(r, s.calls)]
           /\ local' = [local EXCEPT ![r] = Some([f EXCEPT !.i = @ + 1])]
    /\ UNCHANGED <<transport, env, _device, ctorCalls, autoping, locked, serving, pc>>

\* one iteration of `for outlet_id in outlet_ids`
BulkStep(r) ==
    /\ InLoop(r)
    /\ LET f == Frame(r)
           s == BulkLoop(Run(NoFault), f.action, <<f.outlet_ids[1][f.i]>>)
       IN  /\ power' = s.power
           /\ last' = [last EXCEPT !.calls = @ \o Logged(r, s.calls)]
           /\ local' = [local EXCEPT ![r] = Some([f EXCEPT !.i = @ + 1])]
    /\ UNCHANGED <<transport, env, _device, ctorCalls, autoping, locked, serving, pc>>

\* the omitted list: device.outlets.bulk_operation(locked=False, action=action)
BulkAllStep(r) ==
    /\ pc[r] = "all"
    /\ LET s == BulkAll(Run(NoFault), Frame(r).action)
       IN  /\ power' = s.power
           /\ last' = [last EXCEPT !.calls = @ \o Logged(r, s.calls)]
    /\ pc' = [pc EXCEPT ![r] = "return"]
    /\ UNCHANGED <<transport, env, _device, ctorCalls, autoping, locked, serving, local>>

\* return msg
BulkReturn(r) ==
    /\ \/ pc[r] = "return"
       \/ pc[r] = "loop" /\ ~InLoop(r)
    /\ pc' = [pc EXCEPT ![r] = "done"]
    /\ UNCHANGED <<transport, env, _device, ctorCalls, power, autoping, locked, serving, last, local>>

BulkRequestStep ==
    \E r \in Requests : BulkBegin(r) \/ BulkStep(r) \/ BulkAllStep(r) \/ BulkReturn(r)

InitBulkRace ==
    /\ transport = "http"
    /\ env = FixtureEnv
    /\ _device = None
    /\ ctorCalls = 0
    /\ power \in [Outlets -> BOOLEAN]
    /\ autoping = Scripted
    /\ locked = {}
    /\ serving = TRUE
    /\ last = [Idle EXCEPT !.op = "device log", !.prePower = power]
    /\ pc = [r \in Requests |-> "idle"]
    /\ local = [r \in Requests |-> None]

NextBulkRace == BulkRequestStep

SpecBulkRace == InitBulkRace /\ [][NextBulkRace]_vars

----------------------------------------------------------------------------
(* C22: overlapping bulk requests *)

\* the positions in the log of the calls on outlet o
CallsOn(o) ==
    {k \in 1..Len(last.calls) :
        "outlet" \in DOMAIN last.calls[k].call /\ last.calls[k].call.outlet = o}

Max(S) == CHOOSE k \in S : \A j \in S : j <= k

\* a call of one request lies between two calls of another
Interleaved ==
    \E i, j, k \in 1..Len(last.calls) :
        /\ i < j /\ j < k
        /\ last.calls[i].r = last.calls[k].r
        /\ last.calls[j].r # last.calls[i].r

\* no request ran with an omitted list
OnlyExplicit == \A k \in 1..Len(last.calls) : last.calls[k].call.m # "bulk_operation"

\* C22: nothing orders the per-outlet calls of concurrent bulk requests: a
\* request inside its loop can issue its next call whatever the other
\* requests have done, and the device applies the calls one by one as they
\* arrive, so that an outlet is left as the last call on it, of whichever
\* request, set it.
C22_CallsInterleave ==
    /\ \A r \in Requests : InLoop(r) => ENABLED BulkStep(r)
    /\ OnlyExplicit =>
          \A o \in Outlets :
              power[o] = IF CallsOn(o) = {} THEN last.prePower[o]
                         ELSE last.calls[Max(CallsOn(o))].call.m # "off"

\* both requests have returned, one having turned outlets 0 and 1 on and the
\* other having turned them off, with the calls of one between the calls of
\* the other: outlet 0 and outlet 1 are left in different states, which
\* neither request leaves when it runs alone
C22_Witness ==
    /\ \A r \in Requests : pc[r] = "done"
    /\ \E r, q \in Requests :
          /\ Frame(r) = [action |-> "on", outlet_ids |-> Some(<<0, 1>>), i |-> 3]
          /\ Frame(q) = [action |-> "off", outlet_ids |-> Some(<<0, 1>>), i |-> 3]
    /\ Interleaved
    /\ power[0] # power[1]

----------------------------------------------------------------------------
(* C23: the order of the setup script's steps *)

\* the device calls of a complete run, in order
SetupOrder == <<"test_connection", "list_entries", "add_entry">>

\* the methods called so far
Methods == [k \in 1..Len(local.calls) |-> local.calls[k].m]

\* the credentials and the watchdog parameters have been collected
Collected ==
    /\ local.host # None /\ local.password # None /\ local.ecowitt_ip # None
    /\ local.outlet_id # None /\ local.interval # None /\ local.retries # None

\* C23: in every run of the setup script the device calls made are an
\* initial part of test_connection, list_entries, add_entry, each made at
\* most once; nothing is called before the credentials and the watchdog
\* parameters are collected; list_entries is called only after
\* test_connection returned true, the confirmation is asked only after
\* list_entries, and add_entry is called only after the answer was "y" in
\* either case.
C23_StepsInOrder ==
    /\ Len(Methods) <= 3
    /\ Methods = [k \in 1..Len(Methods) |-> SetupOrder[k]]
    /\ pc = "collect" => Methods = <<>> /\ ~Collected
    /\ Methods # <<>> => Collected
    /\ pc = "connect" => Methods = <<>> /\ Collected
    /\ Len(Methods) >= 2 => local.connected = Some(TRUE)
    /\ pc = "list" => Len(Methods) = 1 /\ local.connected = Some(TRUE)
    /\ local.answer # None => Len(Methods) >= 2
    /\ pc = "confirm" => Len(Methods) = 2 /\ local.answer = None
    /\ pc = "add" => Len(Methods) = 2
    /\ (pc = "add" \/ AddInvoked) =>
          /\ local.connected = Some(TRUE)
          /\ local.answer \in {Some("y"), Some("Y")}

\* a complete run: connected, listed, confirmed with "Y", created
C23_Witness ==
    /\ pc = "exit"
    /\ Methods = SetupOrder
    /\ local.answer = Some("Y")
    /\ local.status = Some(0)
    /\ Len(autoping.table) = Len(local.before[1]) + 1

----------------------------------------------------------------------------
(* C24: bulk requests and locked outlets *)

\* C24: a bulk request with an explicit list and an action of {on, off,
\* cycle} that did not fail has called the action's method on every listed
\* outlet, locked or not, and has read no outlet's locked flag; a bulk
\* request with the list omitted that did not fail has left every outlet
\* flagged locked as it was and applied the action to the others.
C24_ExplicitListIgnoresLock ==
    /\ (BulkExplicit /\ last.args.action \in Actions /\ last.exc = None) =>
          LET l == last.args.outlet_ids
          IN  /\ Len(last.calls) = Len(l)
              /\ \A k \in 1..Len(l) :
                    last.calls[k] = [m |-> last.args.action, outlet |-> l[k]]
              /\ \A k \in 1..Len(last.calls) : last.calls[k].m # "locked"
    /\ (BulkOmitted /\ last.args.action \in Actions /\ last.exc = None) =>
          /\ Len(last.calls) = 1
          /\ last.calls[1].m = "bulk_operation"
          /\ last.calls[1].locked = FALSE
          /\ \A o \in Outlets :
                power[o] = IF o \in locked THEN last.prePower[o]
                           ELSE last.args.action # "off"

\* "off" for a list that names the locked outlet 1 and an unlocked one: both
\* were called
C24_Witness ==
    /\ BulkExplicit
    /\ last.args.action = "off"
    /\ last.exc = None
    /\ locked = {1}
    /\ \E j, k \in 1..Len(last.calls) :
          /\ last.calls[j] = [m |-> "off", outlet |-> 1]
          /\ last.calls[k] = [m |-> "off", outlet |-> 0]

----------------------------------------------------------------------------
(* C25, C26: bulk requests with an empty list, and with an unknown action *)

\* C25: in a process that has its device handle, a bulk request with the
\* explicit list [] is not served as one with the list omitted: it makes no
\* device call at all, leaves every outlet as it was, and returns
\* "Performed '<action>' on outlets: []".
C25_EmptyListIsExplicit ==
    (BulkExplicit /\ last.args.outlet_ids = <<>> /\ _device # None) =>
        /\ last.calls = <<>>
        /\ power = last.prePower
        /\ last.exc = None
        /\ last.out = "return"
        /\ last.result =
              Text(<<"Performed '", last.args.action, "' on outlets: ", "[", "]">>)

\* "off" for the empty list on a device with an outlet on
C25_Witness ==
    /\ BulkExplicit
    /\ last.args.outlet_ids = <<>>
    /\ last.args.action = "off"
    /\ _device # None
    /\ \E o \in Outlets : power[o]
    /\ last.out = "return"

\* C26: in a process that has its device handle, a bulk request with an
\* explicit list and an action outside {on, off, cycle} calls no method of any
\* outlet and changes no outlet's state, and still returns the message
\* "Performed '<action>' on outlets: [...]" and not an error result.
C26_UnknownActionReportsSuccess ==
    (BulkExplicit /\ last.args.action \notin Actions /\ _device # None) =>
        /\ last.calls = <<>>
        /\ power = last.prePower
        /\ last.exc = None
        /\ last.out = "return"
        /\ "text" \in DOMAIN last.result
        /\ IsPerformedText(last.result.text, last.args.action, last.args.outlet_ids)
        /\ last.result.text[1] \notin {"Error: ", "Unexpected error: "}

\* "toggle" for a list of two outlets
C26_Witness ==
    /\ BulkExplicit
    /\ last.args.action = "toggle"
    /\ Len(last.args.outlet_ids) = 2
    /\ _device # None
    /\ last.calls = <<>>
    /\ last.out = "return"
    /\ last.result.text[1] = "Performed '"

----------------------------------------------------------------------------
(* A serving process started without its credentials: requests and direct  *)
(* get_device calls arrive while the host and the password are being       *)
(* provided.                                                               *)

RecoverOps == {"outlet_on", "get_outlet_info", "get_all_outlet_states",
               "bulk_outlet_operation"}

RecoverArgs(name) ==
    CASE name \in {"outlet_on", "get_outlet_info"} -> [outlet_id |-> 0]
      [] name = "bulk_outlet_operation" -> [action |-> "on", outlet_ids |-> <<0, 1>>]
      [] OTHER -> NoArgs

\* os.environ[k] = v for the host or the password, while the process runs
Provide ==
    \E k \in {"POWER_SWITCH_HOST", "POWER_SWITCH_PASSWORD"} : \E v \in EnvValues(k) :
        /\ env' = [n \in DOMAIN env \cup {k} |-> IF n = k THEN v ELSE env[n]]
        /\ env' # env
        /\ UNCHANGED <<transport, _device, ctorCalls, power, autoping, locked, serving, last, pc, local>>

\* a request for one of the tools, answered before the next arrives
RecoverRequest ==
    /\ serving
    /\ \E name \in RecoverOps :
          Invoked(name, RecoverArgs(name), Handle(name, RecoverArgs(name), NoFault))

InitRecover ==
    /\ InitProcess
    /\ env \in {[n \in {} |-> ""],
                [n \in {"POWER_SWITCH_HOST"} |-> "10.0.0.7"],
                [n \in {"POWER_SWITCH_PASSWORD", "POWER_SWITCH_USE_HTTPS"} |->
                    IF n = "POWER_SWITCH_PASSWORD" THEN "" ELSE "True"]}
    /\ power = [o \in Outlets |-> FALSE]
    /\ locked = {}

NextRecover == Main \/ Provide \/ RecoverRequest \/ GetDevice

SpecRecover == InitRecover /\ [][NextRecover]_vars

----------------------------------------------------------------------------
(* C27: a failed get_device is not cached *)

\* the step is an invocation: a tool request or a direct get_device call
InvocationStep == env' = env /\ last' # last /\ last'.op # "main"

\* the invocation observed in l was answered with the configuration error
ConfigErrorResult(l) ==
    IF l.op = "get_device"
    THEN l.out = "raise" /\ l.result.raised = ConfigError
    ELSE /\ l.out = "return"
         /\ IF "mapping" \in DOMAIN l.result
            THEN l.result.mapping = [error |-> <<"Unexpected error: ", ConfigError.msg>>]
            ELSE l.result = Text(<<"Unexpected error: ", ConfigError.msg>>)

\* C27: while no handle is cached, every invocation made with the host or
\* the password missing fails with the configuration error, makes no device
\* call, constructs nothing and leaves the handle unset, however many have
\* failed before it; and the first invocation made with both present reads
\* the environment as it is then, invokes the constructor exactly once and
\* caches the handle built from those values.
C27_FailureNotCached ==
    [][(InvocationStep /\ _device = None) =>
          IF HostMissing \/ PasswordMissing
          THEN /\ _device' = None
               /\ ctorCalls' = 0
               /\ last'.calls = <<>>
               /\ power' = power
               /\ ConfigErrorResult(last')
          ELSE /\ _device' # None
               /\ ctorCalls = 0 /\ ctorCalls' = 1
               /\ last'.ctor = 1
               /\ _device'[1].host = env["POWER_SWITCH_HOST"]
               /\ _device'[1].password = env["POWER_SWITCH_PASSWORD"]
               /\ last'.op = "get_device" =>
                     last'.out = "return" /\ last'.result.handle = _device'
               /\ last'.op # "get_device" => last'.exc = None /\ last'.calls # <<>>
      ]_vars

\* a request that failed for the missing host or password was followed, once
\* both were there, by a request that constructed the handle and reached
\* the device
C27_Witness ==
    /\ last.prev.op \in RecoverOps
    /\ ~last.prev.ok
    /\ last.op \in RecoverOps
    /\ last.pre = None
    /\ last.ctor = 1
    /\ ctorCalls = 1
    /\ _device # None
    /\ last.calls # <<>>
    /\ last.exc = None

====
